---- MODULE Spec2Model ----
(***************************************************************************)
(* Model of the EVH graph builder of internal/nodes/avi_model_evh_nodes.go *)
(* (ProcessSecureHostsForEVH, ProcessInsecureHostsForEVH,                  *)
(* DeleteStaleDataForEvh, RouteIngrDeletePoolsByHostnameForEvh and the     *)
(* node helpers they call).                                                *)
(*                                                                         *)
(* A Go pointer to a node is modelled by the node's value; where the code  *)
(* relies on aliasing (a node that is already linked in a list is mutated  *)
(* through a second pointer) the operator writes the mutated value back at *)
(* the node's position in the list.  Checksums of leaf nodes (pool, pool   *)
(* group, HTTP policy, TLS node) are functions of the node's fields, so two*)
(* leaf checksums are equal exactly when the modelled fields are equal.    *)
(*                                                                         *)
(* Under Spec and SpecWorkers no HostRule and no HTTPRule exists, so       *)
(* BuildL7HostRule and BuildPoolHTTPRule leave the modelled fields of the  *)
(* graph unchanged.  SpecCRD follows the host-rule overlay of              *)
(* internal/nodes/crd_translator.go (BuildL7HostRule and the validation of *)
(* HostRule, HTTPRule and AviInfraSetting) on the VS node of one host.     *)
(* SpecHTTPRule follows the pool overlay of BuildPoolHTTPRule on the pools *)
(* of that host, SpecChecksum the checksum of a VS node                    *)
(* (CalculateCheckSum), SpecRest the REST layer with its VS and VSVIP      *)
(* caches (AviVsBuild, AviVsCacheAdd, AviVsCacheDel, AviVsVipBuild,        *)
(* AviVsVipCacheAdd, AviVsVipCacheDel).                                    *)
(* Not modelled: passthrough hosts.                                        *)
(*                                                                         *)
(* Spec runs every entry point as one step (one key is processed at a      *)
(* time).  SpecWorkers runs the entry points of two ingress keys statement *)
(* by statement, interleaved, with the graph pointers and the Lock of the  *)
(* graph that each worker holds.                                           *)
(***************************************************************************)
EXTENDS Integers, Sequences, FiniteSets, TLC

\* ---------------------------------------------------------------- bounds
MaxPaths == 2       \* distinct paths an ingress rule can carry
MaxBackends == 2    \* backing services on one path (alternate backends)
MaxWeight == 2      \* weights of alternate backends are 1..MaxWeight
MaxRefs == 2        \* names in the policy-set and datascript lists of a HostRule

\* ------------------------------------------------------- finite universes
Ings == {"A", "B"}             \* namespace/name keys of ingress objects
Hosts == {"h1", "h2"}
Paths == 1..MaxPaths
ShardSizes == {0, 1}        \* values lib.GetshardSize() can return here

PolicyNone == "none"
PolicyAllow == "allow"
PolicyRedirect == "redirect"
PolicyEdgeTerm == "edge"
PolicyPass == "passthrough"

\* ---------------------------------------------------------- map helpers
EmptyMap == [x \in {} |-> x]
Put(f, k, v) == [x \in (DOMAIN f) \cup {k} |-> IF x = k THEN v ELSE f[x]]
Del(f, k) == [x \in (DOMAIN f) \ {k} |-> f[x]]

\* every enumeration of a finite set: Go iterates a map in any order (one
\* enumeration of the hosts is drawn per event and every loop over a map of
\* hosts of that event visits its keys in that order)
SeqsOf(S) ==
    {s \in [1..Cardinality(S) -> S] : \A i, j \in 1..Cardinality(S) : i # j => s[i] # s[j]}

Range(s) == {s[i] : i \in 1..Len(s)}

\* utils.HasElem
HasElem(s, e) == \E i \in 1..Len(s) : s[i] = e

\* s without position i
RemoveAt(s, i) == [j \in 1..(Len(s) - 1) |-> IF j < i THEN s[j] ELSE s[j + 1]]

\* utils.Remove: the list without the given string, order kept
Remove(s, e) == SelectSeq(s, LAMBDA x : x # e)

\* index of the first element with the given name, 0 when there is none
FirstIdx(s, name) ==
    IF \E i \in 1..Len(s) : s[i].Name = name
    THEN CHOOSE i \in 1..Len(s) : s[i].Name = name /\ \A j \in 1..(i - 1) : s[j].Name # name
    ELSE 0

\* the append(list[:i], list[i+1:]...) ; append(list, new) idiom of the
\* Replace...InEVHNode helpers: the first same-named entry is dropped and the
\* new node goes to the end; with no match the node is appended
ReplaceByName(s, node) ==
    LET i == FirstIdx(s, node.Name)
    IN IF i = 0 THEN Append(s, node) ELSE Append(RemoveAt(s, i), node)

\* the loop-and-break removal of RemovePoolNodeRefsFromEvh and its siblings
RemoveByName(s, name) ==
    LET i == FirstIdx(s, name)
    IN IF i = 0 THEN s ELSE RemoveAt(s, i)

\* a node that is linked in the list was mutated through another pointer
WriteBack(s, node) ==
    [j \in 1..Len(s) |-> IF j = FirstIdx(s, node.Name) THEN node ELSE s[j]]

\* ------------------------------------------------------------ lib names
GetEvhNodeName(ing, host) == host
GetEvhVsPoolNPgName(ing, host, path) == <<ing, host, path>>
GetSniHttpPolName(ing, host, path) == <<ing, host, path>>
GetTLSKeyCertNodeName(host) == host
GetCACertNodeName(keycertname) == <<"cacert", keycertname>>
GetL7HttpRedirPolicy(vsName) == vsName \o "-redirect"
\* vsName + "." + tenant + "." + subDomains[0]
DefaultFqdn(vsName) == vsName \o ".admin.avi.internal"

\* utils.Bkt: hash of the host name modulo the shard size
HostHash(host) == IF host = "h1" THEN 2 ELSE 3
Bkt(host, size) == HostHash(host) % size

\* leaf checksums: a function of the semantic fields
LeafCheckSum(node) == node

\* ------------------------------------------------- AviEvhVsNode helpers
\* variant: a same-named pool group is never replaced
CheckPGNameNChecksum_NameOnly(o, pgNodeName, checksum) ==
    FirstIdx(o.PoolGroupRefs, pgNodeName) = 0

CheckPGNameNChecksum(o, pgNodeName, checksum) ==
    LET i == FirstIdx(o.PoolGroupRefs, pgNodeName)
    IN IF i = 0 THEN TRUE ELSE LeafCheckSum(o.PoolGroupRefs[i]) # checksum

CheckPoolNChecksum(o, poolNodeName, checksum) ==
    ~ \E i \in 1..Len(o.PoolRefs) :
          o.PoolRefs[i].Name = poolNodeName /\ LeafCheckSum(o.PoolRefs[i]) = checksum

CheckHttpPolNameNChecksumForEvh(o, httpNodeName, checksum) ==
    ~ \E i \in 1..Len(o.HttpPolicyRefs) :
          o.HttpPolicyRefs[i].Name = httpNodeName /\ LeafCheckSum(o.HttpPolicyRefs[i]) = checksum

CheckSSLCertNodeNameNChecksum(o, sslNodeName, checksum) ==
    ~ \E i \in 1..Len(o.SSLKeyCertRefs) :
          o.SSLKeyCertRefs[i].Name = sslNodeName /\ LeafCheckSum(o.SSLKeyCertRefs[i]) = checksum

CheckCACertNodeNameNChecksum(o, cacertNodeName, checksum) ==
    ~ \E i \in 1..Len(o.CACertRefs) :
          o.CACertRefs[i].Name = cacertNodeName /\ LeafCheckSum(o.CACertRefs[i]) = checksum

\* variant: the new pool is appended and the same-named entry stays
ReplaceEvhPoolInEVHNode_Append(o, newPoolNode) ==
    [o EXCEPT !.PoolRefs = Append(@, newPoolNode)]

ReplaceEvhPoolInEVHNode(o, newPoolNode) ==
    [o EXCEPT !.PoolRefs = ReplaceByName(@, newPoolNode)]

ReplaceEvhPGInEVHNode(o, newPGNode) ==
    [o EXCEPT !.PoolGroupRefs = ReplaceByName(@, newPGNode)]

ReplaceHTTPRefInNodeForEvh(o, newHttpNode) ==
    [o EXCEPT !.HttpPolicyRefs = ReplaceByName(@, newHttpNode)]

ReplaceEvhSSLRefInEVHNode(o, newSslNode) ==
    [o EXCEPT !.SSLKeyCertRefs = ReplaceByName(@, newSslNode)]

ReplaceCACertRefInEVHNode(o, cacertNode) ==
    [o EXCEPT !.CACertRefs = ReplaceByName(@, cacertNode)]

DeleteCACertRefInEVHNode(o, cacertNodeName) ==
    [o EXCEPT !.CACertRefs = RemoveByName(@, cacertNodeName)]

DeleteSSLRefInEVHNode(o, sslKeyCertName) ==
    [o EXCEPT !.SSLKeyCertRefs = RemoveByName(@, sslKeyCertName)]

GetEvhNodeForName(v, EVHNodeName) == FirstIdx(v.EvhNodes, EVHNodeName)

\* the parent VS of a new shard graph: no child, a VSVIP seeded with the
\* default sub-domain FQDN
ConstructAviL7SharedVsNodeForEvh(vsName) ==
    [Name |-> vsName,
     EvhNodes |-> <<>>,
     SSLKeyCertRefs |-> <<>>,
     CACertRefs |-> <<>>,
     HttpPolicyRefs |-> <<>>,
     FQDNs |-> <<DefaultFqdn(vsName)>>]

\* the child VS literal of ProcessInsecureHostsForEVH and evhNodeHostName
NewEvhNode(ing, host, parent) ==
    [Name |-> GetEvhNodeName(ing, host),
     VHParentName |-> parent.Name,
     EvhHostName |-> host,
     VHDomainNames |-> <<>>,
     PoolRefs |-> <<>>,
     PoolGroupRefs |-> <<>>,
     HttpPolicyRefs |-> <<>>]

\* --------------------------------------------- BuildPolicyPGPoolsForEVH
\* One iteration of the path loop.  acc.child is the child VS, acc.local is
\* localPGList: pool-group name -> [Members, linked], linked telling that the
\* local pool-group node is the one linked in the child's PoolGroupRefs (so
\* that the append to its Members shows in the child).
\* variant: every backing service of a path gets a pool group of its own
\* member, which replaces the group of the service before it
BuildOnePath_NewGroup(acc, ing, host, path) ==
    LET childNode == acc.child
        pgName == GetEvhVsPoolNPgName(ing, host, path.Path)
        pgfound == pgName \in DOMAIN acc.local
        pg0 == IF pgfound THEN acc.local[pgName] ELSE [Members |-> <<>>, linked |-> FALSE]
        poolNode == [Name |-> GetEvhVsPoolNPgName(ing, host, path.Path),
                     PortName |-> path.PortName,
                     ServiceName |-> path.ServiceName]
        member == [PoolRef |-> poolNode.Name, Ratio |-> path.weight]
        pgNode == [Name |-> pgName, Members |-> <<member>>]
        c1 == IF pg0.linked
              THEN [childNode EXCEPT !.PoolGroupRefs = WriteBack(@, pgNode)]
              ELSE childNode
        replPG == CheckPGNameNChecksum(c1, pgNode.Name, LeafCheckSum(pgNode))
        PoolGroup(c) == IF replPG THEN ReplaceEvhPGInEVHNode(c, pgNode) ELSE c
        Pool(c) == IF CheckPoolNChecksum(c, poolNode.Name, LeafCheckSum(poolNode))
                   THEN ReplaceEvhPoolInEVHNode(c, poolNode)
                   ELSE c
        httpPGPath == [Host |-> host,
                       MatchCriteria |-> IF path.PathType = "Exact" THEN "EQUALS" ELSE "BEGINS_WITH",
                       Path |-> <<path.Path>>,
                       PoolGroup |-> pgName]
        policyNode == [Name |-> GetSniHttpPolName(ing, host, path.Path), HppMap |-> <<httpPGPath>>]
        Policy(c) == IF ~pgfound /\ CheckHttpPolNameNChecksumForEvh(c, policyNode.Name, LeafCheckSum(policyNode))
                     THEN ReplaceHTTPRefInNodeForEvh(c, policyNode)
                     ELSE c
    IN [child |-> Policy(Pool(PoolGroup(c1))),
        local |-> Put(acc.local, pgName, [Members |-> pgNode.Members, linked |-> pg0.linked \/ replPG])]

\* one iteration of the path loop (see the head of this section)
BuildOnePath(acc, ing, host, path) ==
    LET childNode == acc.child
        pgName == GetEvhVsPoolNPgName(ing, host, path.Path)
        pgfound == pgName \in DOMAIN acc.local
        pg0 == IF pgfound THEN acc.local[pgName] ELSE [Members |-> <<>>, linked |-> FALSE]
        poolNode == [Name |-> GetEvhVsPoolNPgName(ing, host, path.Path),
                     PortName |-> path.PortName,
                     ServiceName |-> path.ServiceName]
        member == [PoolRef |-> poolNode.Name, Ratio |-> path.weight]
        pgNode == [Name |-> pgName, Members |-> Append(pg0.Members, member)]
        c1 == IF pg0.linked
              THEN [childNode EXCEPT !.PoolGroupRefs = WriteBack(@, pgNode)]
              ELSE childNode
        replPG == CheckPGNameNChecksum(c1, pgNode.Name, LeafCheckSum(pgNode))
        PoolGroup(c) == IF replPG THEN ReplaceEvhPGInEVHNode(c, pgNode) ELSE c
        Pool(c) == IF CheckPoolNChecksum(c, poolNode.Name, LeafCheckSum(poolNode))
                   THEN ReplaceEvhPoolInEVHNode(c, poolNode)
                   ELSE c
        httpPGPath == [Host |-> host,
                       MatchCriteria |-> IF path.PathType = "Exact" THEN "EQUALS" ELSE "BEGINS_WITH",
                       Path |-> <<path.Path>>,
                       PoolGroup |-> pgName]
        policyNode == [Name |-> GetSniHttpPolName(ing, host, path.Path), HppMap |-> <<httpPGPath>>]
        Policy(c) == IF ~pgfound /\ CheckHttpPolNameNChecksumForEvh(c, policyNode.Name, LeafCheckSum(policyNode))
                     THEN ReplaceHTTPRefInNodeForEvh(c, policyNode)
                     ELSE c
    IN [child |-> Policy(Pool(PoolGroup(c1))),
        local |-> Put(acc.local, pgName, [Members |-> pgNode.Members, linked |-> pg0.linked \/ replPG])]

RECURSIVE BuildPathLoop(_, _, _, _, _)
BuildPathLoop(acc, ing, host, paths, i) ==
    IF i > Len(paths) THEN acc
    ELSE BuildPathLoop(BuildOnePath(acc, ing, host, paths[i]), ing, host, paths, i + 1)

\* returns the parent (its VSVIP FQDNs updated) and the child; the child is
\* not linked into parent.EvhNodes here
BuildPolicyPGPoolsForEVH(vsNode, childNode, ing, host, paths) ==
    LET parent1 == IF ~HasElem(vsNode.FQDNs, host)
                   THEN [vsNode EXCEPT !.FQDNs = Append(@, host)]
                   ELSE vsNode
        child1 == IF ~HasElem(childNode.VHDomainNames, host)
                  THEN [childNode EXCEPT !.VHDomainNames = Append(@, host)]
                  ELSE childNode
        acc == BuildPathLoop([child |-> child1, local |-> EmptyMap], ing, host, paths, 1)
    IN [parent |-> parent1, child |-> acc.child]

\* ------------------------------------------------------ TLS cert nodes
\* A TLS setting is [SecretName, Hosts, redirect, cert]; cert abstracts what
\* the cert source yields:
\*   "secret"     a Kubernetes secret holding both tls.crt and tls.key
\*   "missing"    secret absent, or its cert or key entry absent
\*   "route"      Route-style inline cert and key, no CA cert
\*   "routeCA"    Route-style inline cert, key and CA cert
\*   "routeEmpty" Route-style setting with an empty cert or key
\*   "dummy"      secret name matching lib.DummySecret (no cert is built)
IsRouteSecret(tlsData) == tlsData.cert \in {"route", "routeCA", "routeEmpty"}

BuildCACertNodeForEvh(tlsNode, tlsData, keycertname) ==
    LET cacertNode == [Name |-> GetCACertNodeName(keycertname),
                       Type |-> "CA",
                       Cert |-> tlsData.SecretName]
    IN IF CheckCACertNodeNameNChecksum(tlsNode, cacertNode.Name, LeafCheckSum(cacertNode))
       THEN IF Len(tlsNode.CACertRefs) = 1
            THEN [tlsNode EXCEPT !.CACertRefs = <<cacertNode>>]
            ELSE ReplaceCACertRefInEVHNode(tlsNode, cacertNode)
       ELSE tlsNode

\* returns [ok, node]: whether the cert was built and the VS that owns it
BuildTlsCertNodeForEvh(tlsNode, tlsData, host) ==
    LET name == GetTLSKeyCertNodeName(host)
        certNode == [Name |-> name,
                     Type |-> "VS",
                     Cert |-> tlsData.SecretName,
                     CACert |-> IF tlsData.cert = "routeCA" THEN GetCACertNodeName(name) ELSE <<>>]
        n1 == IF tlsData.cert = "routeCA" THEN BuildCACertNodeForEvh(tlsNode, tlsData, name)
              ELSE IF tlsData.cert = "route" THEN DeleteCACertRefInEVHNode(tlsNode, GetCACertNodeName(name))
              ELSE tlsNode
        n2 == IF CheckSSLCertNodeNameNChecksum(n1, name, LeafCheckSum(certNode))
              THEN ReplaceEvhSSLRefInEVHNode(n1, certNode)
              ELSE n1
    IN IF tlsData.cert \in {"missing", "routeEmpty"}
       THEN [ok |-> FALSE, node |-> tlsNode]
       ELSE [ok |-> TRUE, node |-> n2]

\* ------------------------------------------------------ child VS list
\* AviEvhVsNode.CalculateCheckSum of a child VS: the sum of the checksums of
\* its HTTP policies (a sum does not depend on their order) and the hash of
\* its host name; the pools and pool groups are not part of it.  The other
\* summands are the same for every child VS of the model.
EvhCheckSum(v) ==
    [httppolChecksum |-> {LeafCheckSum(v.HttpPolicyRefs[i]) : i \in 1..Len(v.HttpPolicyRefs)},
     EvhHostName |-> v.EvhHostName]

\* evhNode is not the node linked in the list (it is new); when evhNode was
\* taken from the list the callers write it back first, so that the two
\* checksums compared here are those of one and the same node
FindAndReplaceEvhInModel(currentEvhNode, EvhNodes) ==
    LET i == FirstIdx(EvhNodes, currentEvhNode.Name)
    IN IF i = 0 THEN [found |-> FALSE, EvhNodes |-> EvhNodes]
       ELSE IF EvhCheckSum(EvhNodes[i]) # EvhCheckSum(currentEvhNode)
            THEN [found |-> TRUE, EvhNodes |-> Append(RemoveAt(EvhNodes, i), currentEvhNode)]
            ELSE [found |-> TRUE, EvhNodes |-> EvhNodes]

RemoveEvhInModel(currentEvhNodeName, EvhNodes) == RemoveByName(EvhNodes, currentEvhNodeName)

\* link a built child: in place when it was taken from the list, otherwise
\* through FindAndReplaceEvhInModel and the append that follows it
LinkEvhNode(vsNode, evhNode, wasLinked) ==
    LET nodes0 == IF wasLinked THEN WriteBack(vsNode.EvhNodes, evhNode) ELSE vsNode.EvhNodes
        r == FindAndReplaceEvhInModel(evhNode, nodes0)
    IN [vsNode EXCEPT !.EvhNodes = IF r.found THEN r.EvhNodes ELSE Append(r.EvhNodes, evhNode)]

\* ----------------------------------------------- redirect policy, FQDNs
\* AviHttpPolicySetNode.CalculateCheckSum of a redirect policy: a hash of its
\* hosts, which is not 0 (the value of a node whose checksum was never
\* calculated)
RedirectCheckSum(policy) == 1 + Len(policy.RedirectPorts[1].Hosts)

\* variant: the hosts of the policy found are replaced by the new host
FindAndReplaceRedirectHTTPPolicyInModelforEvh_Overwrite(vsNode, httpPolicy, hostname) ==
    LET match(i) == /\ vsNode.HttpPolicyRefs[i].Name = httpPolicy.Name
                    /\ vsNode.HttpPolicyRefs[i].CloudConfigCksum # httpPolicy.CloudConfigCksum
    IN IF \E i \in 1..Len(vsNode.HttpPolicyRefs) : match(i)
       THEN LET i == CHOOSE k \in 1..Len(vsNode.HttpPolicyRefs) :
                         match(k) /\ \A j \in 1..(k - 1) : ~match(j)
            IN [found |-> TRUE,
                node |-> [vsNode EXCEPT !.HttpPolicyRefs[i].RedirectPorts[1].Hosts = <<hostname>>]]
       ELSE [found |-> FALSE, node |-> vsNode]

FindAndReplaceRedirectHTTPPolicyInModelforEvh(vsNode, httpPolicy, hostname) ==
    LET match(i) == /\ vsNode.HttpPolicyRefs[i].Name = httpPolicy.Name
                    /\ vsNode.HttpPolicyRefs[i].CloudConfigCksum # httpPolicy.CloudConfigCksum
    IN IF \E i \in 1..Len(vsNode.HttpPolicyRefs) : match(i)
       THEN LET i == CHOOSE k \in 1..Len(vsNode.HttpPolicyRefs) :
                         match(k) /\ \A j \in 1..(k - 1) : ~match(j)
            IN [found |-> TRUE,
                node |-> IF ~HasElem(vsNode.HttpPolicyRefs[i].RedirectPorts[1].Hosts, hostname)
                         THEN [vsNode EXCEPT !.HttpPolicyRefs[i].RedirectPorts[1].Hosts = Append(@, hostname)]
                         ELSE vsNode]
       ELSE [found |-> FALSE, node |-> vsNode]

BuildPolicyRedirectForVSForEvh(vsNode, hostname) ==
    LET redirectPolicy == [Name |-> GetL7HttpRedirPolicy(vsNode.Name),
                           RedirectPorts |-> <<[Hosts |-> <<hostname>>,
                                                RedirectPort |-> 443,
                                                VsPort |-> 80]>>,
                           CloudConfigCksum |-> 0]
        r == FindAndReplaceRedirectHTTPPolicyInModelforEvh(vsNode, redirectPolicy, hostname)
    IN IF r.found THEN r.node
       ELSE [vsNode EXCEPT !.HttpPolicyRefs =
                 Append(@, [redirectPolicy EXCEPT !.CloudConfigCksum = RedirectCheckSum(redirectPolicy)])]

\* variant: a policy left with no host stays in the list
RemoveRedirectHTTPPolicyInModelForEvh_KeepEmpty(vsNode, hostname) ==
    LET policyName == GetL7HttpRedirPolicy(vsNode.Name)
        strip(p) == IF p.Name = policyName
                    THEN [p EXCEPT !.RedirectPorts[1].Hosts = Remove(@, hostname)]
                    ELSE p
    IN [vsNode EXCEPT !.HttpPolicyRefs =
            [i \in 1..Len(vsNode.HttpPolicyRefs) |-> strip(vsNode.HttpPolicyRefs[i])]]

\* every policy with the redirect name loses the host; a policy left with no
\* host is dropped from the list
RemoveRedirectHTTPPolicyInModelForEvh(vsNode, hostname) ==
    LET policyName == GetL7HttpRedirPolicy(vsNode.Name)
        strip(p) == IF p.Name = policyName
                    THEN [p EXCEPT !.RedirectPorts[1].Hosts = Remove(@, hostname)]
                    ELSE p
        stripped == [i \in 1..Len(vsNode.HttpPolicyRefs) |-> strip(vsNode.HttpPolicyRefs[i])]
    IN [vsNode EXCEPT !.HttpPolicyRefs =
            SelectSeq(stripped, LAMBDA p : ~(p.Name = policyName /\ Len(p.RedirectPorts[1].Hosts) = 0))]

\* The range loop runs over the original length while the slice shrinks: arr
\* is the backing array, n the current length of the slice.
RECURSIVE RemoveFQDNsLoop(_, _, _, _)
RemoveFQDNsLoop(arr, n, hosts, i) ==
    IF i > Len(arr) THEN SubSeq(arr, 1, n)
    ELSE IF HasElem(hosts, arr[i]) /\ i <= n
         THEN RemoveFQDNsLoop([[arr EXCEPT ![i] = arr[n]] EXCEPT ![n] = ""], n - 1, hosts, i + 1)
         ELSE RemoveFQDNsLoop(arr, n, hosts, i + 1)

RemoveFQDNsFromModelForEvh(vsNode, hosts) ==
    [vsNode EXCEPT !.FQDNs = RemoveFQDNsLoop(@, Len(@), hosts, 1)]

\* ------------------------------------------------------------ sharding
VARIABLES
    shardSize,   \* lib.GetshardSize(), fixed when the controller starts
    graphs,      \* SharedAviGraphLister: model name -> parent VS of the shard
    lister,      \* SharedHostNameLister: host -> keys of its HostNameMap
    stored,      \* ingress -> host map saved by the last processing (RouteIngToHost)
    resources,   \* ingress -> what the ingress object that exists says about each host
    pc,          \* worker -> the statement the worker of an ingress key is at
    job,         \* worker -> the locals of the event the worker is processing
    priv,        \* worker -> the graph the worker points to that is not in the lister
    lock,        \* worker -> whether it holds the Lock of the graph it points to
    mut,         \* the last mutation of a graph: who, in which function, lock held
    hostrules,   \* HostRuleInformer: HostRule name -> its virtualHost spec and status
    fqdnToHostrule, \* SharedCRDLister: FQDN -> name of the HostRule mapped to it
    otherCrds,   \* the HTTPRule and the AviInfraSetting object, with their status
    vsModel,     \* the VS node of one host that BuildL7HostRule is called with
    httprules,   \* HTTPRuleInformer: HTTPRule name -> its paths and status
    pathRules,   \* SharedCRDLister: target path -> HTTPRule mapped to it for the host
    ckNode,      \* a VS node whose checksum is calculated
    vsCache,     \* VsCacheMeta: name of a VS -> its AviVsCache object
    vsvipCache,  \* VSVIPCache: name of a VSVIP -> its AviVSVIPCache object
    lastCall     \* the last call into the REST layer and what it returned

vars == <<shardSize, graphs, lister, stored, resources, pc, job, priv, lock, mut,
          hostrules, fqdnToHostrule, otherCrds, vsModel,
          httprules, pathRules, ckNode, vsCache, vsvipCache, lastCall>>

crdVars == <<hostrules, fqdnToHostrule, otherCrds, vsModel>>

httpRuleVars == <<httprules, pathRules>>

restVars == <<vsCache, vsvipCache, lastCall>>

workerVars == <<pc, job, priv, lock, mut>>

DeriveHostNameShardVSForEvh(hostname) ==
    IF shardSize # 0
    THEN "Shared-L7-EVH-" \o ToString(Bkt(hostname, shardSize))
    ELSE ""

\* the graph of the model, or a new graph holding a new parent VS
GetOrNewModel(gs, shardVsName) ==
    IF shardVsName \in DOMAIN gs THEN gs[shardVsName]
    ELSE ConstructAviL7SharedVsNodeForEvh(shardVsName)

\* saveAviModel: the graph is stored under the model name
saveAviModel(gs, modelName, aviModel) == Put(gs, modelName, aviModel)

\* getPathSvc: path -> the service names of the path, in input order
getPathSvc(paths) ==
    [p \in {paths[i].Path : i \in 1..Len(paths)} |->
        LET sel == SelectSeq(paths, LAMBDA e : e.Path = p)
        IN [i \in 1..Len(sel) |-> sel[i].ServiceName]]

\* GetDiffPathSvc: the stored paths that are not among the new ones
GetDiffPathSvc(storedPathSvc, currentPathSvc) ==
    [p \in (DOMAIN storedPathSvc) \ {currentPathSvc[i].Path : i \in 1..Len(currentPathSvc)} |->
        storedPathSvc[p]]

\* the hosts of a map in the order the iteration visits them
Visit(order, keys) == SelectSeq(order, LAMBDA h : h \in keys)

\* ----------------------------------------------------- evhNodeHostName
\* the child VS of the host in the parent, or the new child VS literal
EvhNodeOf(vsNode, ing, host) ==
    LET idx == GetEvhNodeForName(vsNode, GetEvhNodeName(ing, host))
    IN IF idx = 0 THEN NewEvhNode(ing, host, vsNode) ELSE vsNode.EvhNodes[idx]

\* the certsBuilt branch: the pools are built, the child is linked, the
\* host leaves the redirect policy and enters it again when asked for
EvhCertsBuilt(vsNode, ing, tlssetting, host) ==
    LET idx == GetEvhNodeForName(vsNode, GetEvhNodeName(ing, host))
        Linked(b) == LinkEvhNode(b.parent, b.child, idx # 0)
        Redirected(v) == IF tlssetting.redirect THEN BuildPolicyRedirectForVSForEvh(v, host) ELSE v
    IN Redirected(RemoveRedirectHTTPPolicyInModelForEvh(
           Linked(BuildPolicyPGPoolsForEVH(vsNode, EvhNodeOf(vsNode, ing, host), ing, host,
                                           tlssetting.Hosts[host])),
           host))

\* the branch taken when the certs could not be built: the ingress leaves
\* the host's lister entry and, when no ingress is left on the host, the
\* TLS node, the child VS and the redirect host are removed
EvhCertsNotBuilt(vsNode, hostLister, ing, host) ==
    LET lister2 == IF host \in DOMAIN hostLister
                   THEN Put(hostLister, host, hostLister[host] \ {ing})
                   ELSE hostLister
        remaining == IF host \in DOMAIN lister2 THEN lister2[host] ELSE {}
        w1 == DeleteSSLRefInEVHNode(vsNode, GetTLSKeyCertNodeName(host))
        w2 == [w1 EXCEPT !.EvhNodes = RemoveEvhInModel(EvhNodeOf(vsNode, ing, host).Name, @)]
        w3 == RemoveRedirectHTTPPolicyInModelForEvh(w2, host)
    IN [node |-> IF remaining = {} THEN w3 ELSE vsNode, lister |-> lister2]

\* the TLS node of the host on the parent; a secret named as the dummy
\* secret counts as built without a node
\* (an existing child whose SSLKeyCertAviRef is set counts as built too; the
\* field is set by a HostRule only, so it is empty here)
EvhTls(vsNode, tlssetting, host) ==
    IF tlssetting.cert = "dummy"
    THEN [ok |-> TRUE, node |-> vsNode]
    ELSE BuildTlsCertNodeForEvh(vsNode, tlssetting, host)

\* One iteration of the loop over tlssetting.Hosts.  st is [graphs, lister];
\* the result adds ret, TRUE when the function returns from inside the loop.
EvhNodeHostNameHost(st, ing, tlssetting, host) ==
    LET keys0 == IF host \in DOMAIN st.lister THEN st.lister[host] ELSE {}
        lister1 == Put(st.lister, host, keys0 \cup {ing})
        shardVsName == DeriveHostNameShardVSForEvh(host)
        vsNode == GetOrNewModel(st.graphs, shardVsName)
        tls == EvhTls(vsNode, tlssetting, host)
        failed == EvhCertsNotBuilt(tls.node, lister1, ing, host)
    IN IF shardVsName = ""
       THEN [graphs |-> st.graphs, lister |-> lister1, ret |-> TRUE]
       ELSE IF tls.ok
            THEN [graphs |-> saveAviModel(st.graphs, shardVsName,
                                          EvhCertsBuilt(tls.node, ing, tlssetting, host)),
                  lister |-> lister1, ret |-> FALSE]
            ELSE [graphs |-> saveAviModel(st.graphs, shardVsName, failed.node),
                  lister |-> failed.lister, ret |-> FALSE]

\* st carries visited, the hosts entered into hostPathSvcMap so far
RECURSIVE EvhNodeHostNameLoop(_, _, _, _, _)
EvhNodeHostNameLoop(st, ing, tlssetting, hosts, i) ==
    IF i > Len(hosts) THEN st
    ELSE LET st1(r) == [graphs |-> r.graphs, lister |-> r.lister,
                        visited |-> st.visited \cup {hosts[i]}]
             Continue(r) == IF r.ret THEN st1(r)
                            ELSE EvhNodeHostNameLoop(st1(r), ing, tlssetting, hosts, i + 1)
         IN Continue(EvhNodeHostNameHost(st, ing, tlssetting, hosts[i]))

evhNodeHostName(st, ing, tlssetting, order) ==
    EvhNodeHostNameLoop([graphs |-> st.graphs, lister |-> st.lister, visited |-> {}],
                        ing, tlssetting, Visit(order, DOMAIN tlssetting.Hosts), 1)

\* ------------------------------------------- ProcessSecureHostsForEVH
\* the body of the loop over locEvhHostMap, for one host; ev is the state of
\* the event being processed: [graphs, lister, Storedhosts, hostsMap]
\* variant: the stored paths of a secure host are not narrowed to the paths
\* that left
SecureHostEntry_NoDiff(ev, tlssetting, host) ==
    LET newPathSvc == tlssetting.Hosts[host]
        found == host \in DOMAIN ev.Storedhosts
        s1 == IF found /\ ev.Storedhosts[host].InsecurePolicy = PolicyAllow
              THEN [ev.Storedhosts EXCEPT ![host].InsecurePolicy = PolicyNone]
              ELSE ev.Storedhosts
        pathSvcDiff == GetDiffPathSvc(s1[host].PathSvc, newPathSvc)
        s2 == IF found /\ s1[host].SecurePolicy = PolicyEdgeTerm
              THEN IF DOMAIN pathSvcDiff = {}
                   THEN [s1 EXCEPT ![host].SecurePolicy = PolicyNone,
                                   ![host].InsecurePolicy = PolicyNone]
                   ELSE s1
              ELSE s1
        h0 == IF host \in DOMAIN ev.hostsMap THEN ev.hostsMap[host]
              ELSE [SecurePolicy |-> "", InsecurePolicy |-> PolicyNone, PathSvc |-> EmptyMap]
        h1 == [h0 EXCEPT !.SecurePolicy = PolicyEdgeTerm,
                         !.InsecurePolicy = IF tlssetting.redirect THEN PolicyRedirect ELSE @,
                         !.PathSvc = getPathSvc(newPathSvc)]
    IN [ev EXCEPT !.Storedhosts = s2, !.hostsMap = Put(ev.hostsMap, host, h1)]

\* the body of the loop over locEvhHostMap, for one host (see above)
SecureHostEntry(ev, tlssetting, host) ==
    LET newPathSvc == tlssetting.Hosts[host]
        found == host \in DOMAIN ev.Storedhosts
        s1 == IF found /\ ev.Storedhosts[host].InsecurePolicy = PolicyAllow
              THEN [ev.Storedhosts EXCEPT ![host].InsecurePolicy = PolicyNone]
              ELSE ev.Storedhosts
        pathSvcDiff == GetDiffPathSvc(s1[host].PathSvc, newPathSvc)
        s2 == IF found /\ s1[host].SecurePolicy = PolicyEdgeTerm
              THEN IF DOMAIN pathSvcDiff = {}
                   THEN [s1 EXCEPT ![host].SecurePolicy = PolicyNone,
                                   ![host].InsecurePolicy = PolicyNone]
                   ELSE [s1 EXCEPT ![host].PathSvc = pathSvcDiff]
              ELSE s1
        h0 == IF host \in DOMAIN ev.hostsMap THEN ev.hostsMap[host]
              ELSE [SecurePolicy |-> "", InsecurePolicy |-> PolicyNone, PathSvc |-> EmptyMap]
        h1 == [h0 EXCEPT !.SecurePolicy = PolicyEdgeTerm,
                         !.InsecurePolicy = IF tlssetting.redirect THEN PolicyRedirect ELSE @,
                         !.PathSvc = getPathSvc(newPathSvc)]
    IN [ev EXCEPT !.Storedhosts = s2, !.hostsMap = Put(ev.hostsMap, host, h1)]

RECURSIVE SecureHostEntries(_, _, _, _)
SecureHostEntries(ev, tlssetting, hosts, i) ==
    IF i > Len(hosts) THEN ev
    ELSE SecureHostEntries(SecureHostEntry(ev, tlssetting, hosts[i]), tlssetting, hosts, i + 1)

RECURSIVE ProcessSecureHostsForEVHLoop(_, _, _, _, _)
ProcessSecureHostsForEVHLoop(ev, ing, TlsCollection, order, i) ==
    IF i > Len(TlsCollection) THEN ev
    ELSE LET tlssetting == TlsCollection[i]
             Entries(loc) ==
                 SecureHostEntries([ev EXCEPT !.graphs = loc.graphs, !.lister = loc.lister],
                                   tlssetting, Visit(order, loc.visited), 1)
         IN ProcessSecureHostsForEVHLoop(Entries(evhNodeHostName(ev, ing, tlssetting, order)),
                                         ing, TlsCollection, order, i + 1)

ProcessSecureHostsForEVH(ev, ing, parsedIng, order) ==
    ProcessSecureHostsForEVHLoop(ev, ing, parsedIng.TlsCollection, order, 1)

\* ----------------------------------------- ProcessInsecureHostsForEVH
\* the child VS of an insecure host is looked up or created, a new child is
\* linked before it is built, the pools are built and the child is linked
InsecureBuild(vsNode, ing, host, paths) ==
    LET idx == GetEvhNodeForName(vsNode, GetEvhNodeName(ing, host))
        evhNode == EvhNodeOf(vsNode, ing, host)
        v0 == IF idx = 0 THEN LinkEvhNode(vsNode, evhNode, FALSE) ELSE vsNode
        Linked(b) == LinkEvhNode(b.parent, b.child, TRUE)
    IN Linked(BuildPolicyPGPoolsForEVH(v0, evhNode, ing, host, paths))

\* the head of the loop body: the stored entry of the host is marked or
\* narrowed to the paths that left, the host enters the output host map
InsecureHostEntry(ev, host, pathsvcmap) ==
    LET found == host \in DOMAIN ev.Storedhosts
        pathSvcDiff == GetDiffPathSvc(ev.Storedhosts[host].PathSvc, pathsvcmap)
        s1 == IF found /\ ev.Storedhosts[host].InsecurePolicy # PolicyNone
              THEN IF DOMAIN pathSvcDiff = {}
                   THEN [ev.Storedhosts EXCEPT ![host].InsecurePolicy = PolicyNone,
                                               ![host].SecurePolicy = PolicyNone]
                   ELSE [ev.Storedhosts EXCEPT ![host].PathSvc = pathSvcDiff]
              ELSE ev.Storedhosts
        h0 == IF host \in DOMAIN ev.hostsMap THEN ev.hostsMap[host]
              ELSE [SecurePolicy |-> PolicyNone, InsecurePolicy |-> "", PathSvc |-> EmptyMap]
        h1 == [h0 EXCEPT !.InsecurePolicy = PolicyAllow, !.PathSvc = getPathSvc(pathsvcmap)]
    IN [ev EXCEPT !.Storedhosts = s1, !.hostsMap = Put(ev.hostsMap, host, h1)]

\* one iteration of the loop over IngressHostMap; ret is TRUE when the
\* function returns from inside the loop
InsecureHost(ev, ing, parsedIng, host) ==
    LET pathsvcmap == parsedIng.IngressHostMap[host]
        ev1 == InsecureHostEntry(ev, host, pathsvcmap)
        shardVsName == DeriveHostNameShardVSForEvh(host)
        vsNode == GetOrNewModel(ev.graphs, shardVsName)
    IN IF shardVsName = ""
       THEN [ev |-> ev1, ret |-> TRUE]
       ELSE [ev |-> [ev1 EXCEPT !.graphs = saveAviModel(ev.graphs, shardVsName,
                                                         InsecureBuild(vsNode, ing, host, pathsvcmap))],
             ret |-> FALSE]

RECURSIVE ProcessInsecureHostsForEVHLoop(_, _, _, _, _)
ProcessInsecureHostsForEVHLoop(ev, ing, parsedIng, hosts, i) ==
    IF i > Len(hosts) THEN ev
    ELSE LET Continue(r) == IF r.ret THEN r.ev
                            ELSE ProcessInsecureHostsForEVHLoop(r.ev, ing, parsedIng, hosts, i + 1)
         IN Continue(InsecureHost(ev, ing, parsedIng, hosts[i]))

ProcessInsecureHostsForEVH(ev, ing, parsedIng, order) ==
    ProcessInsecureHostsForEVHLoop(ev, ing, parsedIng,
                                   Visit(order, DOMAIN parsedIng.IngressHostMap), 1)

\* ------------------------------------------------- ManipulateEvhNode
\* RemovePoolRefsFromPG: the members that reference the pool leave the group
RemovePoolRefsFromPG(poolName, pgNode) ==
    [pgNode EXCEPT !.Members = SelectSeq(@, LAMBDA m : m.PoolRef # poolName)]

\* the body of the loop over pathSvc, for one path
ManipulatePath(modelEvhNode, ing, hostname, path) ==
    LET pgName == GetEvhVsPoolNPgName(ing, hostname, path)
        pgIdx == FirstIdx(modelEvhNode.PoolGroupRefs, pgName)
        evhPool == GetEvhVsPoolNPgName(ing, hostname, path)
        n1 == [modelEvhNode EXCEPT !.PoolRefs = RemoveByName(@, evhPool)]
        pgNode == RemovePoolRefsFromPG(evhPool, n1.PoolGroupRefs[pgIdx])
        n2 == [n1 EXCEPT !.PoolGroupRefs = WriteBack(@, pgNode)]
        httppolname == GetEvhVsPoolNPgName(ing, hostname, path)
    IN IF pgIdx = 0 THEN n1
       ELSE IF Len(pgNode.Members) = 0
            THEN [n2 EXCEPT !.PoolGroupRefs = RemoveByName(@, pgName),
                            !.HttpPolicyRefs = RemoveByName(@, httppolname)]
            ELSE n2

\* the paths are visited in ascending order: the removals of different paths
\* touch different entries, so every order gives the same lists
RECURSIVE ManipulatePaths(_, _, _, _, _)
ManipulatePaths(modelEvhNode, ing, hostname, pathSvc, p) ==
    IF p > MaxPaths THEN modelEvhNode
    ELSE ManipulatePaths(IF p \in DOMAIN pathSvc
                         THEN ManipulatePath(modelEvhNode, ing, hostname, p)
                         ELSE modelEvhNode,
                         ing, hostname, pathSvc, p + 1)

\* variant: the host leaves the host-name lister also when the child VS is kept
ManipulateEvhNode_DropRecord(vsNode, hostLister, currentEvhNodeName, ing, hostname, pathSvc) ==
    LET idx == FirstIdx(vsNode.EvhNodes, currentEvhNodeName)
        Emptied(modelEvhNode) ==
            IF Len(modelEvhNode.PoolRefs) = 0
            THEN [keep |-> FALSE,
                  node |-> [vsNode EXCEPT !.EvhNodes = RemoveEvhInModel(currentEvhNodeName, @)],
                  lister |-> Del(hostLister, hostname)]
            ELSE [keep |-> TRUE,
                  node |-> [vsNode EXCEPT !.EvhNodes = WriteBack(@, modelEvhNode)],
                  lister |-> Del(hostLister, hostname)]
    IN IF idx = 0
       THEN [keep |-> TRUE, node |-> vsNode, lister |-> hostLister]
       ELSE Emptied(ManipulatePaths(vsNode.EvhNodes[idx], ing, hostname, pathSvc, 1))

\* returns [keep, node, lister]
ManipulateEvhNode(vsNode, hostLister, currentEvhNodeName, ing, hostname, pathSvc) ==
    LET idx == FirstIdx(vsNode.EvhNodes, currentEvhNodeName)
        Emptied(modelEvhNode) ==
            IF Len(modelEvhNode.PoolRefs) = 0
            THEN [keep |-> FALSE,
                  node |-> [vsNode EXCEPT !.EvhNodes = RemoveEvhInModel(currentEvhNodeName, @)],
                  lister |-> Del(hostLister, hostname)]
            ELSE [keep |-> TRUE,
                  node |-> [vsNode EXCEPT !.EvhNodes = WriteBack(@, modelEvhNode)],
                  lister |-> hostLister]
    IN IF idx = 0
       THEN [keep |-> TRUE, node |-> vsNode, lister |-> hostLister]
       ELSE Emptied(ManipulatePaths(vsNode.EvhNodes[idx], ing, hostname, pathSvc, 1))

\* variant: the FQDN is removed also when the child VS is kept
DeletePoolForHostnameForEvh_DropFqdn(vsNode, hostLister, hostname, ing, pathSvc, removeFqdn, removeRedir) ==
    LET lister1 == IF hostname \in DOMAIN hostLister
                   THEN Put(hostLister, hostname, hostLister[hostname] \ {ing})
                   ELSE hostLister
        evhNodeName == GetEvhNodeName(ing, hostname)
        Ssl(n, keepEvh) == IF ~keepEvh
                           THEN DeleteSSLRefInEVHNode(n, GetTLSKeyCertNodeName(hostname))
                           ELSE n
        Fqdn(n, keepEvh) == IF removeFqdn
                            THEN RemoveFQDNsFromModelForEvh(n, <<hostname>>)
                            ELSE n
        Redir(n, keepEvh) == IF removeRedir /\ ~keepEvh
                             THEN RemoveRedirectHTTPPolicyInModelForEvh(n, hostname)
                             ELSE n
        Rest(m) == [node |-> Redir(Fqdn(Ssl(m.node, m.keep), m.keep), m.keep), lister |-> m.lister]
    IN Rest(ManipulateEvhNode(vsNode, lister1, evhNodeName, ing, hostname, pathSvc))

\* returns [node, lister]
DeletePoolForHostnameForEvh(vsNode, hostLister, hostname, ing, pathSvc, removeFqdn, removeRedir) ==
    LET lister1 == IF hostname \in DOMAIN hostLister
                   THEN Put(hostLister, hostname, hostLister[hostname] \ {ing})
                   ELSE hostLister
        evhNodeName == GetEvhNodeName(ing, hostname)
        Ssl(n, keepEvh) == IF ~keepEvh
                           THEN DeleteSSLRefInEVHNode(n, GetTLSKeyCertNodeName(hostname))
                           ELSE n
        Fqdn(n, keepEvh) == IF removeFqdn /\ ~keepEvh
                            THEN RemoveFQDNsFromModelForEvh(n, <<hostname>>)
                            ELSE n
        Redir(n, keepEvh) == IF removeRedir /\ ~keepEvh
                             THEN RemoveRedirectHTTPPolicyInModelForEvh(n, hostname)
                             ELSE n
        Rest(m) == [node |-> Redir(Fqdn(Ssl(m.node, m.keep), m.keep), m.keep), lister |-> m.lister]
    IN Rest(ManipulateEvhNode(vsNode, lister1, evhNodeName, ing, hostname, pathSvc))

\* ---------------------------------------------- DeleteStaleDataForEvh
\* the calls of DeletePoolForHostnameForEvh that an entry point makes for one
\* host run one after the other on the graph of the host's shard; d is
\* [node, lister], a call is [removeFqdn, removeRedir]
RECURSIVE DeletePoolCalls(_, _, _, _, _, _)
DeletePoolCalls(d, calls, host, ing, pathSvc, i) ==
    IF i > Len(calls) THEN d
    ELSE DeletePoolCalls(DeletePoolForHostnameForEvh(d.node, d.lister, host, ing, pathSvc,
                                                     calls[i].removeFqdn, calls[i].removeRedir),
                         calls, host, ing, pathSvc, i + 1)

\* variant: the redirect host of a stale host is never removed
StaleCalls_KeepRedir(hostData, hostsMap, host) ==
    LET ok == host \in DOMAIN hostsMap
        transitioning == /\ ok
                         /\ hostData.SecurePolicy # PolicyPass
                         /\ hostsMap[host].SecurePolicy # PolicyPass
        call == [removeFqdn |-> ~transitioning,
                 removeRedir |-> FALSE]
    IN (IF hostData.SecurePolicy = PolicyEdgeTerm THEN <<call>> ELSE <<>>)
       \o (IF hostData.InsecurePolicy # PolicyNone THEN <<call>> ELSE <<>>)

\* the calls DeleteStaleDataForEvh makes for a stored host: the FQDN and the
\* redirect host are kept when the host is in the output host map too
StaleCalls(hostData, hostsMap, host) ==
    LET ok == host \in DOMAIN hostsMap
        transitioning == /\ ok
                         /\ hostData.SecurePolicy # PolicyPass
                         /\ hostsMap[host].SecurePolicy # PolicyPass
        call == [removeFqdn |-> ~transitioning,
                 removeRedir |-> ~(transitioning /\ hostsMap[host].InsecurePolicy = PolicyRedirect)]
    IN (IF hostData.SecurePolicy = PolicyEdgeTerm THEN <<call>> ELSE <<>>)
       \o (IF hostData.InsecurePolicy # PolicyNone THEN <<call>> ELSE <<>>)

\* one iteration of the loop over Storedhosts; ret is TRUE when the function
\* returns from inside the loop
StaleHost(ev, ing, host) ==
    LET hostData == ev.Storedhosts[host]
        shardVsName == DeriveHostNameShardVSForEvh(host)
        Saved(d) == [ev EXCEPT !.graphs = saveAviModel(ev.graphs, shardVsName, d.node),
                               !.lister = d.lister]
    IN IF shardVsName = "" THEN [ev |-> ev, ret |-> TRUE]
       ELSE IF shardVsName \notin DOMAIN ev.graphs THEN [ev |-> ev, ret |-> FALSE]
       ELSE [ev |-> Saved(DeletePoolCalls([node |-> ev.graphs[shardVsName], lister |-> ev.lister],
                                          StaleCalls(hostData, ev.hostsMap, host),
                                          host, ing, hostData.PathSvc, 1)),
             ret |-> FALSE]

RECURSIVE DeleteStaleDataForEvhLoop(_, _, _, _)
DeleteStaleDataForEvhLoop(ev, ing, hosts, i) ==
    IF i > Len(hosts) THEN ev
    ELSE LET Continue(r) == IF r.ret THEN r.ev
                            ELSE DeleteStaleDataForEvhLoop(r.ev, ing, hosts, i + 1)
         IN Continue(StaleHost(ev, ing, hosts[i]))

DeleteStaleDataForEvh(ev, ing, order) ==
    DeleteStaleDataForEvhLoop(ev, ing, Visit(order, DOMAIN ev.Storedhosts), 1)

\* ------------------------------- RouteIngrDeletePoolsByHostnameForEvh
\* the calls RouteIngrDeletePoolsByHostnameForEvh makes for a stored host
DeleteCalls(hostData) ==
    LET call == [removeFqdn |-> TRUE, removeRedir |-> TRUE]
    IN (IF hostData.SecurePolicy = PolicyEdgeTerm THEN <<call>> ELSE <<>>)
       \o (IF hostData.InsecurePolicy = PolicyAllow THEN <<call>> ELSE <<>>)

\* one iteration of the loop over hostMap, on st = [graphs, lister, stored]
DeleteHost(st, ing, hostMap, host) ==
    LET hostData == hostMap[host]
        shardVsName == DeriveHostNameShardVSForEvh(host)
        Saved(d) == [st EXCEPT !.graphs = saveAviModel(st.graphs, shardVsName, d.node),
                               !.lister = d.lister]
    IN IF shardVsName = "" THEN [st |-> st, ret |-> TRUE]
       ELSE IF shardVsName \notin DOMAIN st.graphs THEN [st |-> st, ret |-> FALSE]
       ELSE [st |-> Saved(DeletePoolCalls([node |-> st.graphs[shardVsName], lister |-> st.lister],
                                          DeleteCalls(hostData), host, ing, hostData.PathSvc, 1)),
             ret |-> FALSE]

\* returns the state with ret: TRUE when the function returned from inside
\* the loop, before the mappings of the ingress are removed
RECURSIVE RouteIngrDeleteLoop(_, _, _, _, _)
RouteIngrDeleteLoop(st, ing, hostMap, hosts, i) ==
    IF i > Len(hosts) THEN [st |-> st, ret |-> FALSE]
    ELSE LET Continue(r) == IF r.ret THEN r
                            ELSE RouteIngrDeleteLoop(r.st, ing, hostMap, hosts, i + 1)
         IN Continue(DeleteHost(st, ing, hostMap, hosts[i]))

RouteIngrDeletePoolsByHostnameForEvh(st, ing, order) ==
    IF ing \notin DOMAIN st.stored THEN st
    ELSE LET hostMap == st.stored[ing]
             Done(r) == IF r.ret THEN r.st
                        ELSE [r.st EXCEPT !.stored = Del(@, ing)]
         IN Done(RouteIngrDeleteLoop(st, ing, hostMap, Visit(order, DOMAIN hostMap), 1))

\* ------------------------------------------- processing of one ingress
\* The add/update handler of an ingress: the stored host map of the ingress
\* is read, the secure hosts, then the insecure hosts are built, the stale
\* data is deleted and the new host map is stored.  st = [graphs, lister, stored].
ProcessIngress(st, ing, parsedIng, order) ==
    LET ev0 == [graphs |-> st.graphs,
                lister |-> st.lister,
                Storedhosts |-> IF ing \in DOMAIN st.stored THEN st.stored[ing] ELSE EmptyMap,
                hostsMap |-> EmptyMap]
        Secure(ev) == ProcessSecureHostsForEVH(ev, ing, parsedIng, order)
        Insecure(ev) == ProcessInsecureHostsForEVH(ev, ing, parsedIng, order)
        Stale(ev) == DeleteStaleDataForEvh(ev, ing, order)
        Store(ev) == [graphs |-> ev.graphs,
                      lister |-> ev.lister,
                      stored |-> Put(st.stored, ing, ev.hostsMap)]
    IN Store(Stale(Insecure(Secure(ev0))))

\* ------------------------------------------------------------- inputs
Entry(p, svc, w) ==
    [Path |-> p, ServiceName |-> svc, weight |-> w, PortName |-> "http",
     PathType |-> IF p % 2 = 1 THEN "Prefix" ELSE "Exact"]

\* paths 1..n, one backing service each
SinglePaths(n) == [i \in 1..n |-> Entry(i, 1, 1)]

\* path 1 with Len(ws) backing services of weights ws
AltPaths(ws) == [i \in 1..Len(ws) |-> Entry(1, i, ws[i])]

\* MaxBackends alternate backends, the weights going down from MaxWeight
\* and starting over after 1
DescWeights == [i \in 1..MaxBackends |-> MaxWeight - ((i - 1) % MaxWeight)]

\* what an ingress says about one host: nothing, insecure paths, or secure
\* paths with the redirect annotation and the state of the cert source
Absent == [mode |-> "absent", paths |-> <<>>, redirect |-> FALSE, cert |-> "secret"]

Insecure(pl) == [mode |-> "insecure", paths |-> pl, redirect |-> FALSE, cert |-> "secret"]

Secure(pl, r, c) == [mode |-> "secure", paths |-> pl, redirect |-> r, cert |-> c]

FullCfgs ==
    {Absent,
     Insecure(SinglePaths(1)),
     Insecure(SinglePaths(MaxPaths)),
     Insecure(AltPaths(DescWeights)),
     Secure(SinglePaths(1), TRUE, "secret"),
     Secure(SinglePaths(MaxPaths), FALSE, "secret"),
     Secure(SinglePaths(1), TRUE, "missing"),
     Secure(SinglePaths(1), FALSE, "routeCA"),
     Secure(SinglePaths(1), FALSE, "route")}

SmallCfgs == {Absent, Secure(SinglePaths(1), TRUE, "secret")}

OtherCfgs == {Absent, Insecure(SinglePaths(1))}

\* ingress A carries up to two hosts, ingress B shares host h1 with it
CfgsFor(ing, host) ==
    IF ing = "A" /\ host = "h1" THEN FullCfgs
    ELSE IF ing = "A" THEN SmallCfgs
    ELSE IF host = "h1" THEN OtherCfgs
    ELSE {Absent}

IngressCfgs(ing) ==
    {[h \in Hosts |-> IF h = "h1" THEN c1 ELSE c2] : c1 \in CfgsFor(ing, "h1"), c2 \in CfgsFor(ing, "h2")}

TlsSettingOf(ing, cfg, hs) ==
    LET h0 == CHOOSE h \in hs : TRUE
    IN [SecretName |-> <<ing, cfg[h0].cert>>,
        Hosts |-> [h \in hs |-> cfg[h].paths],
        redirect |-> cfg[h0].redirect,
        cert |-> cfg[h0].cert]

\* The parsed ingress: the insecure hosts go to IngressHostMap, the secure
\* hosts to TlsCollection; secure hosts of the same secret and redirect
\* setting share one TLS setting, the others have one each, in the given order.
Parsed(ing, cfg, order) ==
    LET sec == {h \in Hosts : cfg[h].mode = "secure"}
        ins == {h \in Hosts : cfg[h].mode = "insecure"}
        same == \A h1, h2 \in sec : cfg[h1].cert = cfg[h2].cert /\ cfg[h1].redirect = cfg[h2].redirect
        secOrder == Visit(order, sec)
    IN [IngressHostMap |-> [h \in ins |-> cfg[h].paths],
        TlsCollection |-> IF sec = {} THEN <<>>
                          ELSE IF same THEN <<TlsSettingOf(ing, cfg, sec)>>
                          ELSE [i \in 1..Len(secOrder) |-> TlsSettingOf(ing, cfg, {secOrder[i]})]]

\* the orders in which the host maps of an event can be visited: with fewer
\* than two hosts in the stored and in the incoming map there is one order
HostOrders(ing, cfg) ==
    LET incoming == {h \in Hosts : cfg[h].mode # "absent"}
        old == IF ing \in DOMAIN stored THEN DOMAIN stored[ing] ELSE {}
    IN IF Cardinality(incoming) < 2 /\ Cardinality(old) < 2
       THEN {CHOOSE o \in SeqsOf(Hosts) : TRUE}
       ELSE SeqsOf(Hosts)

NoHosts == [h \in Hosts |-> Absent]

\* ------------------------------------------------------- specification
State == [graphs |-> graphs, lister |-> lister, stored |-> stored]

\* the locals of a worker that processes no event
IdleJob ==
    [kind |-> "none", cfg |-> NoHosts, host |-> "", Storedhosts |-> EmptyMap,
     hostsMap |-> EmptyMap, ref |-> "none", tlsOk |-> FALSE, calls |-> <<>>, ret |-> ""]

\* the value of a graph pointer that points to no graph
NilGraph == [Name |-> ""]

NoMutation == [by |-> "", fn |-> "", locked |-> TRUE]

Init ==
    /\ shardSize \in ShardSizes
    /\ graphs = EmptyMap
    /\ lister = EmptyMap
    /\ stored = EmptyMap
    /\ resources = EmptyMap
    /\ pc = [w \in Ings |-> "idle"]
    /\ job = [w \in Ings |-> IdleJob]
    /\ priv = [w \in Ings |-> NilGraph]
    /\ lock = [w \in Ings |-> FALSE]
    /\ mut = NoMutation
    /\ hostrules = EmptyMap
    /\ fqdnToHostrule = EmptyMap
    /\ otherCrds = EmptyMap
    /\ vsModel = NilGraph
    /\ httprules = EmptyMap
    /\ pathRules = EmptyMap
    /\ ckNode = NilGraph
    /\ vsCache = EmptyMap
    /\ vsvipCache = EmptyMap
    /\ lastCall = EmptyMap

\* the state the add/update handler leaves when it runs in the current state
AfterUpdate(ing, cfg, order) == ProcessIngress(State, ing, Parsed(ing, cfg, order), order)

\* the state the delete handler leaves when it runs in the current state
AfterDelete(ing, order) == RouteIngrDeletePoolsByHostnameForEvh(State, ing, order)

\* an ingress is added or updated
IngressAddUpdate(ing, cfg, order) ==
    \E st \in {AfterUpdate(ing, cfg, order)} :
       /\ graphs' = st.graphs
       /\ lister' = st.lister
       /\ stored' = st.stored
       /\ resources' = Put(resources, ing, cfg)
       /\ UNCHANGED <<crdVars, httpRuleVars, ckNode, restVars, shardSize, workerVars>>

\* an ingress is deleted
IngressDelete(ing, order) ==
    /\ ing \in DOMAIN resources
    /\ \E st \in {AfterDelete(ing, order)} :
       /\ graphs' = st.graphs
       /\ lister' = st.lister
       /\ stored' = st.stored
       /\ resources' = Del(resources, ing)
       /\ UNCHANGED <<crdVars, httpRuleVars, ckNode, restVars, shardSize, workerVars>>

Next ==
    \/ \E ing \in Ings : \E cfg \in IngressCfgs(ing) : \E order \in HostOrders(ing, cfg) :
           IngressAddUpdate(ing, cfg, order)
    \/ \E ing \in Ings : \E order \in HostOrders(ing, NoHosts) : IngressDelete(ing, order)

Spec == Init /\ [][Next]_vars

\* ------------------------------------------------ the steps of a worker
\* The graph layer runs several workers; the events of one ingress key go to
\* one worker, so a worker is named by its key.  A worker that finds no graph
\* of a shard makes a new graph object, which the other workers cannot see
\* until saveAviModel stores it; the stored object it replaces stays the
\* object of the workers that still point to it.  A step is a call that
\* writes a graph, or the Lock() that precedes the writes of a function with
\* a deferred Unlock().  The events of this specification carry one host.
WorkerHost == "h1"

\* what the event of a worker can say about the host
WorkerCfgs(w) ==
    {[NoHosts EXCEPT ![WorkerHost] = c] :
        c \in CfgsFor(w, WorkerHost) \cap {Absent,
                                           Insecure(SinglePaths(1)),
                                           Secure(SinglePaths(1), TRUE, "secret"),
                                           Secure(SinglePaths(1), TRUE, "missing")}}

ModelOf(w) == DeriveHostNameShardVSForEvh(job[w].host)

\* the parent VS of the graph the worker points to
GraphOf(w) == IF job[w].ref = "own" THEN priv[w] ELSE graphs[ModelOf(w)]

TlsOf(w) == TlsSettingOf(w, job[w].cfg, {job[w].host})

\* the worker writes the graph it points to, in function fn
Mutate(w, node, fn) ==
    /\ IF job[w].ref = "own"
       THEN priv' = [priv EXCEPT ![w] = node] /\ UNCHANGED graphs
       ELSE graphs' = Put(graphs, ModelOf(w), node) /\ UNCHANGED priv
    /\ mut' = IF node # GraphOf(w) THEN [by |-> w, fn |-> fn, locked |-> lock[w]] ELSE mut

\* worker o points to the stored graph that w's new graph replaces
Displaced(w, o) ==
    /\ o # w
    /\ job[w].ref = "own"
    /\ job[o].ref = "lister"
    /\ ModelOf(o) = ModelOf(w)

\* saveAviModel by worker w, whose locals become loc
Save(w, loc) ==
    /\ graphs' = IF job[w].ref = "own" THEN saveAviModel(graphs, ModelOf(w), priv[w]) ELSE graphs
    /\ priv' = [o \in Ings |-> IF o = w THEN NilGraph
                               ELSE IF Displaced(w, o) THEN graphs[ModelOf(w)]
                               ELSE priv[o]]
    /\ job' = [o \in Ings |-> IF o = w THEN [loc EXCEPT !.ref = "none"]
                              ELSE IF Displaced(w, o) THEN [job[o] EXCEPT !.ref = "own"]
                              ELSE job[o]]

Goto(w, label) == pc' = [pc EXCEPT ![w] = label]

\* the worker takes an add or update event of its ingress
Begin(w, cfg) ==
    /\ pc[w] = "idle"
    /\ job' = [job EXCEPT ![w] =
                  [IdleJob EXCEPT !.kind = "update", !.cfg = cfg, !.host = WorkerHost,
                                  !.Storedhosts = IF w \in DOMAIN stored THEN stored[w] ELSE EmptyMap]]
    /\ Goto(w, IF cfg[WorkerHost].mode = "secure" THEN "sec_get"
               ELSE IF cfg[WorkerHost].mode = "insecure" THEN "ins_get"
               ELSE "stale_get")
    /\ UNCHANGED <<crdVars, httpRuleVars, ckNode, restVars, shardSize, graphs, lister, stored, resources, priv, lock, mut>>

\* the worker takes the delete event of its ingress
BeginDelete(w) ==
    /\ pc[w] = "idle"
    /\ w \in DOMAIN resources
    /\ IF w \in DOMAIN stored
       THEN /\ job' = [job EXCEPT ![w] = [IdleJob EXCEPT !.kind = "delete", !.host = WorkerHost,
                                                         !.Storedhosts = stored[w]]]
            /\ Goto(w, "stale_get")
            /\ UNCHANGED resources
       ELSE /\ resources' = Del(resources, w)
            /\ UNCHANGED <<job, pc>>
    /\ UNCHANGED <<crdVars, httpRuleVars, ckNode, restVars, shardSize, graphs, lister, stored, priv, lock, mut>>

\* SharedAviGraphLister().Get: the worker points to the stored graph or
\* goes on to make a new one; label is where it continues
GetModel(w, loc, label) ==
    IF ModelOf(w) \in DOMAIN graphs
    THEN job' = [job EXCEPT ![w] = [loc EXCEPT !.ref = "lister"]] /\ Goto(w, label)
    ELSE job' = [job EXCEPT ![w] = [loc EXCEPT !.ret = label]] /\ Goto(w, "construct_lock")

\* evhNodeHostName up to the lookup of the graph
SecGet(w) ==
    /\ pc[w] = "sec_get"
    /\ lister' = Put(lister, job[w].host,
                     (IF job[w].host \in DOMAIN lister THEN lister[job[w].host] ELSE {}) \cup {w})
    /\ GetModel(w, job[w], "sec_tls")
    /\ UNCHANGED <<crdVars, httpRuleVars, ckNode, restVars, shardSize, graphs, stored, resources, priv, lock, mut>>

\* ProcessInsecureHostsForEVH up to the lookup of the graph
InsGet(w) ==
    /\ pc[w] = "ins_get"
    /\ GetModel(w, InsecureHostEntry(job[w], job[w].host, job[w].cfg[job[w].host].paths), "ins_build")
    /\ UNCHANGED <<crdVars, httpRuleVars, ckNode, restVars, shardSize, graphs, lister, stored, resources, priv, lock, mut>>

\* NewAviObjectGraph and the Lock() of ConstructAviL7SharedVsNodeForEvh
ConstructLock(w) ==
    /\ pc[w] = "construct_lock"
    /\ job' = [job EXCEPT ![w].ref = "own"]
    /\ priv' = [priv EXCEPT ![w] = NilGraph]
    /\ lock' = [lock EXCEPT ![w] = TRUE]
    /\ Goto(w, "construct_body")
    /\ UNCHANGED <<crdVars, httpRuleVars, ckNode, restVars, shardSize, graphs, lister, stored, resources, mut>>

\* ConstructAviL7SharedVsNodeForEvh without its deferred Unlock()
ConstructBody_NoUnlock(w) ==
    /\ pc[w] = "construct_body"
    /\ Mutate(w, ConstructAviL7SharedVsNodeForEvh(ModelOf(w)), "ConstructAviL7SharedVsNodeForEvh")
    /\ Goto(w, job[w].ret)
    /\ UNCHANGED <<crdVars, httpRuleVars, ckNode, restVars, shardSize, lister, stored, resources, job, lock>>

\* the body of ConstructAviL7SharedVsNodeForEvh and its deferred Unlock()
ConstructBody(w) ==
    /\ pc[w] = "construct_body"
    /\ Mutate(w, ConstructAviL7SharedVsNodeForEvh(ModelOf(w)), "ConstructAviL7SharedVsNodeForEvh")
    /\ lock' = [lock EXCEPT ![w] = FALSE]
    /\ Goto(w, job[w].ret)
    /\ UNCHANGED <<crdVars, httpRuleVars, ckNode, restVars, shardSize, lister, stored, resources, job>>

\* BuildTlsCertNodeForEvh
SecTls(w) ==
    /\ pc[w] = "sec_tls"
    /\ LET tls == EvhTls(GraphOf(w), TlsOf(w), job[w].host)
       IN /\ Mutate(w, tls.node, "BuildTlsCertNodeForEvh")
          /\ job' = [job EXCEPT ![w].tlsOk = tls.ok]
    /\ Goto(w, "sec_build")
    /\ UNCHANGED <<crdVars, httpRuleVars, ckNode, restVars, shardSize, lister, stored, resources, lock>>

\* the rest of the loop body of evhNodeHostName up to saveAviModel
SecBuild(w) ==
    /\ pc[w] = "sec_build"
    /\ IF job[w].tlsOk
       THEN /\ Mutate(w, EvhCertsBuilt(GraphOf(w), w, TlsOf(w), job[w].host),
                      "BuildPolicyPGPoolsForEVH")
            /\ UNCHANGED lister
       ELSE LET f == EvhCertsNotBuilt(GraphOf(w), lister, w, job[w].host)
            IN /\ Mutate(w, f.node, "evhNodeHostName")
               /\ lister' = f.lister
    /\ Goto(w, "sec_save")
    /\ UNCHANGED <<crdVars, httpRuleVars, ckNode, restVars, shardSize, stored, resources, job, lock>>

\* saveAviModel of evhNodeHostName, then the loop over locEvhHostMap
SecSave(w) ==
    /\ pc[w] = "sec_save"
    /\ Save(w, SecureHostEntry(job[w], TlsOf(w), job[w].host))
    /\ Goto(w, "stale_get")
    /\ UNCHANGED <<crdVars, httpRuleVars, ckNode, restVars, shardSize, lister, stored, resources, lock, mut>>

\* the rest of the loop body of ProcessInsecureHostsForEVH up to saveAviModel
InsBuild(w) ==
    /\ pc[w] = "ins_build"
    /\ Mutate(w, InsecureBuild(GraphOf(w), w, job[w].host, job[w].cfg[job[w].host].paths),
              "ProcessInsecureHostsForEVH")
    /\ Goto(w, "ins_save")
    /\ UNCHANGED <<crdVars, httpRuleVars, ckNode, restVars, shardSize, lister, stored, resources, job, lock>>

InsSave(w) ==
    /\ pc[w] = "ins_save"
    /\ Save(w, job[w])
    /\ Goto(w, "stale_get")
    /\ UNCHANGED <<crdVars, httpRuleVars, ckNode, restVars, shardSize, lister, stored, resources, lock, mut>>

\* the loop body of DeleteStaleDataForEvh (of RouteIngrDeletePoolsByHostnameForEvh
\* for a delete event) up to its calls of DeletePoolForHostnameForEvh
StaleGet(w) ==
    /\ pc[w] = "stale_get"
    /\ LET host == job[w].host
           hostData == job[w].Storedhosts[host]
           calls == IF job[w].kind = "delete" THEN DeleteCalls(hostData)
                    ELSE StaleCalls(hostData, job[w].hostsMap, host)
       IN IF host \notin DOMAIN job[w].Storedhosts \/ ModelOf(w) \notin DOMAIN graphs
          THEN Goto(w, "finish") /\ UNCHANGED job
          ELSE /\ job' = [job EXCEPT ![w].ref = "lister", ![w].calls = calls]
               /\ Goto(w, IF calls = <<>> THEN "stale_save" ELSE "del_lock")
    /\ UNCHANGED <<crdVars, httpRuleVars, ckNode, restVars, shardSize, graphs, lister, stored, resources, priv, lock, mut>>

\* the Lock() of DeletePoolForHostnameForEvh
DelLock(w) ==
    /\ pc[w] = "del_lock"
    /\ ~ \E o \in Ings \ {w} : /\ lock[o]
                               /\ job[o].ref = job[w].ref
                               /\ job[w].ref = "lister"
                               /\ ModelOf(o) = ModelOf(w)
    /\ lock' = [lock EXCEPT ![w] = TRUE]
    /\ Goto(w, "del_body")
    /\ UNCHANGED <<crdVars, httpRuleVars, ckNode, restVars, shardSize, graphs, lister, stored, resources, job, priv, mut>>

\* the body of DeletePoolForHostnameForEvh and its deferred Unlock()
DelBody(w) ==
    /\ pc[w] = "del_body"
    /\ LET host == job[w].host
           d == DeletePoolForHostnameForEvh(GraphOf(w), lister, host, w,
                                            job[w].Storedhosts[host].PathSvc,
                                            job[w].calls[1].removeFqdn, job[w].calls[1].removeRedir)
       IN /\ Mutate(w, d.node, "DeletePoolForHostnameForEvh")
          /\ lister' = d.lister
    /\ lock' = [lock EXCEPT ![w] = FALSE]
    /\ job' = [job EXCEPT ![w].calls = Tail(@)]
    /\ Goto(w, IF Len(job[w].calls) > 1 THEN "del_lock" ELSE "stale_save")
    /\ UNCHANGED <<crdVars, httpRuleVars, ckNode, restVars, shardSize, stored, resources>>

StaleSave(w) ==
    /\ pc[w] = "stale_save"
    /\ Save(w, job[w])
    /\ Goto(w, "finish")
    /\ UNCHANGED <<crdVars, httpRuleVars, ckNode, restVars, shardSize, lister, stored, resources, lock, mut>>

\* the handler returns: the output host map is stored for an update, the
\* mapping of the ingress is removed for a delete
Finish(w) ==
    /\ pc[w] = "finish"
    /\ IF job[w].kind = "delete"
       THEN stored' = Del(stored, w) /\ resources' = Del(resources, w)
       ELSE stored' = Put(stored, w, job[w].hostsMap) /\ resources' = Put(resources, w, job[w].cfg)
    /\ job' = [job EXCEPT ![w] = IdleJob]
    /\ Goto(w, "idle")
    /\ UNCHANGED <<crdVars, httpRuleVars, ckNode, restVars, shardSize, graphs, lister, priv, lock, mut>>

InitWorkers == Init /\ shardSize # 0

NextWorkers ==
    \/ \E w \in Ings : \E cfg \in WorkerCfgs(w) : Begin(w, cfg)
    \/ \E w \in Ings : BeginDelete(w)
    \/ \E w \in Ings : SecGet(w)
    \/ \E w \in Ings : InsGet(w)
    \/ \E w \in Ings : ConstructLock(w)
    \/ \E w \in Ings : ConstructBody(w)
    \/ \E w \in Ings : SecTls(w)
    \/ \E w \in Ings : SecBuild(w)
    \/ \E w \in Ings : SecSave(w)
    \/ \E w \in Ings : InsBuild(w)
    \/ \E w \in Ings : InsSave(w)
    \/ \E w \in Ings : StaleGet(w)
    \/ \E w \in Ings : DelLock(w)
    \/ \E w \in Ings : DelBody(w)
    \/ \E w \in Ings : StaleSave(w)
    \/ \E w \in Ings : Finish(w)

SpecWorkers == InitWorkers /\ [][NextWorkers]_vars

\* ------------------------------------------------- views of the graphs
Parents == {graphs[m] : m \in DOMAIN graphs}

Names(s) == {s[i].Name : i \in 1..Len(s)}

ChildHosts(vs) == {vs.EvhNodes[i].EvhHostName : i \in 1..Len(vs.EvhNodes)}

\* the policies of a parent that carry the L7 redirect-policy name
RedirectPolicies(vs) ==
    SelectSeq(vs.HttpPolicyRefs, LAMBDA p : p.Name = GetL7HttpRedirPolicy(vs.Name))

\* the hosts of the redirect policies of a parent
RedirectHosts(vs) ==
    UNION {Range(RedirectPolicies(vs)[i].RedirectPorts[1].Hosts) : i \in 1..Len(RedirectPolicies(vs))}

\* ----------------------------------------------------------------- C3
\* C3: in every state reached after a builder entry point returns, the host
\* of every child VS of a parent is in that parent's VSVIP FQDN list.
C3_ChildHostInVsvip ==
    \A vs \in Parents : \A i \in 1..Len(vs.EvhNodes) :
        HasElem(vs.FQDNs, vs.EvhNodes[i].EvhHostName)

\* ingress A serves h1 and h2 under one parent; the update of A that drops
\* h1 removes the child VS and the FQDN of h1 and leaves those of h2
C3_Witness ==
    /\ "A" \in DOMAIN resources
    /\ resources["A"]["h1"].mode # "absent"
    /\ resources["A"]["h2"].mode # "absent"
    /\ \E vs \in Parents : ChildHosts(vs) = {"h1", "h2"}
    /\ \E order \in SeqsOf(Hosts) :
           LET st == AfterUpdate("A", [NoHosts EXCEPT !["h2"] = resources["A"]["h2"]], order)
           IN \E m \in DOMAIN st.graphs :
                  /\ ChildHosts(st.graphs[m]) = {"h2"}
                  /\ HasElem(st.graphs[m].FQDNs, "h2")
                  /\ ~HasElem(st.graphs[m].FQDNs, "h1")

\* ----------------------------------------------------------------- C4
\* C4: in every state reached after a builder entry point returns, every FQDN
\* of a parent's VSVIP other than the default sub-domain FQDN is the host of
\* a child VS that is in the parent's child list.
C4_NoStaleFqdn ==
    \A vs \in Parents : \A i \in 1..Len(vs.FQDNs) :
        vs.FQDNs[i] = DefaultFqdn(vs.Name) \/ vs.FQDNs[i] \in ChildHosts(vs)

\* ----------------------------------------------------------------- C5
\* C5: in every reachable graph the names of the child VSes of a parent are
\* unique, the names of the pools, of the pool groups and of the HTTP
\* policies of each child VS are unique, and so are the names of the TLS
\* nodes and of the CA cert nodes of the parent that owns them.
C5_UniqueNames ==
    LET UniqueNames(s) == \A i, j \in 1..Len(s) : s[i].Name = s[j].Name => i = j
    IN
    \A vs \in Parents :
        /\ UniqueNames(vs.EvhNodes)
        /\ UniqueNames(vs.SSLKeyCertRefs)
        /\ UniqueNames(vs.CACertRefs)
        /\ \A i \in 1..Len(vs.EvhNodes) :
               /\ UniqueNames(vs.EvhNodes[i].PoolRefs)
               /\ UniqueNames(vs.EvhNodes[i].PoolGroupRefs)
               /\ UniqueNames(vs.EvhNodes[i].HttpPolicyRefs)

\* two child VSes under one parent, one of them built by two ingresses and
\* holding a pool of each, and two TLS nodes on the parent
C5_Witness ==
    \E vs \in Parents :
        /\ Len(vs.EvhNodes) = 2
        /\ Len(vs.SSLKeyCertRefs) = 2
        /\ \E i \in 1..Len(vs.EvhNodes) :
               /\ Len(vs.EvhNodes[i].PoolRefs) >= 2
               /\ Len(vs.EvhNodes[i].PoolGroupRefs) >= 2
               /\ Len(vs.EvhNodes[i].HttpPolicyRefs) >= 2

\* ----------------------------------------------------------------- C6
\* C6: in every reachable state a parent VS holds at most one HTTP policy
\* with the L7 redirect-policy name, and the hosts list of that policy is
\* not empty and holds no host twice.
C6_OneRedirectPolicy ==
    \A vs \in Parents :
        /\ Len(RedirectPolicies(vs)) <= 1
        /\ \A i \in 1..Len(RedirectPolicies(vs)) :
               LET hosts == RedirectPolicies(vs)[i].RedirectPorts[1].Hosts
               IN /\ Len(hosts) > 0
                  /\ \A j, k \in 1..Len(hosts) : hosts[j] = hosts[k] => j = k

\* a redirect policy that holds two hosts, both of ingress A; the delete of
\* A empties its hosts list and the policy leaves the parent
C6_Witness ==
    /\ "A" \in DOMAIN resources
    /\ \E vs \in Parents :
           /\ Len(RedirectPolicies(vs)) = 1
           /\ RedirectHosts(vs) = {"h1", "h2"}
           /\ \E order \in SeqsOf(Hosts) :
                  Len(RedirectPolicies(AfterDelete("A", order).graphs[vs.Name])) = 0

\* ----------------------------------------------------------------- C1

\* the ingresses of the resource set processed one after the other, from
\* the state of a controller that has processed nothing
RECURSIVE FreshBuild(_, _, _, _)
FreshBuild(st, ingOrder, order, i) ==
    IF i > Len(ingOrder) THEN st
    ELSE FreshBuild(ProcessIngress(st, ingOrder[i],
                                   Parsed(ingOrder[i], resources[ingOrder[i]], order), order),
                    ingOrder, order, i + 1)

\* C1: after any sequence of ingress insert, update and delete events the
\* graph of every shard equals the graph that building the final resource
\* set alone on an empty graph produces (for some order of building it).
C1_TransitionLaw ==
    LET \* what the transition law compares: the child VSes with their pools, pool
        \* groups and HTTP policies, the TLS nodes of the parent, the VSVIP FQDN set
        \* and the hosts of the redirect policy
        ChildView(c) ==
            [Name |-> c.Name,
             EvhHostName |-> c.EvhHostName,
             pools |-> Range(c.PoolRefs),
             poolGroups |-> Range(c.PoolGroupRefs),
             policies |-> Range(c.HttpPolicyRefs)]
        GraphView(vs) ==
            [children |-> {ChildView(vs.EvhNodes[i]) : i \in 1..Len(vs.EvhNodes)},
             tls |-> Range(vs.SSLKeyCertRefs) \cup Range(vs.CACertRefs),
             fqdns |-> Range(vs.FQDNs),
             redirectHosts |-> RedirectHosts(vs)]
        \* a shard without a stored graph compares as the graph of a new parent
        ViewOf(gs, m) ==
            IF m \in DOMAIN gs THEN GraphView(gs[m])
            ELSE GraphView(ConstructAviL7SharedVsNodeForEvh(m))
        ShardNames == {DeriveHostNameShardVSForEvh(h) : h \in Hosts} \ {""}
    IN
    \E ingOrder \in SeqsOf(DOMAIN resources) : \E order \in SeqsOf(Hosts) :
        LET fresh == FreshBuild([graphs |-> EmptyMap, lister |-> EmptyMap, stored |-> EmptyMap],
                                ingOrder, order, 1)
        IN \A m \in ShardNames : ViewOf(graphs, m) = ViewOf(fresh.graphs, m)

\* ----------------------------------------------------------------- C2
\* the names of the pools, pool groups and HTTP policies of a child VS
LeafNames(c) == Names(c.PoolRefs) \cup Names(c.PoolGroupRefs) \cup Names(c.HttpPolicyRefs)

\* C2: after RouteIngrDeletePoolsByHostnameForEvh has run for an ingress, no
\* child VS, pool, pool group or HTTP policy built for it remains in a shard
\* graph and its ingress-to-host mapping is empty.
C2_DeleteLeavesNothing ==
    LET \* nothing that was built for the ingress is left in the graphs: no pool,
        \* pool group or HTTP policy carries its name, and no child VS is left
        \* without a pool
        NothingBuiltFor(gs, ing) ==
            \A m \in DOMAIN gs : \A i \in 1..Len(gs[m].EvhNodes) :
                /\ \A n \in LeafNames(gs[m].EvhNodes[i]) : n[1] # ing
                /\ Len(gs[m].EvhNodes[i].PoolRefs) > 0
    IN
    \A ing \in DOMAIN resources : \A order \in SeqsOf(Hosts) :
        LET st == AfterDelete(ing, order)
        IN /\ NothingBuiltFor(st.graphs, ing)
           /\ ing \notin DOMAIN st.stored

\* ----------------------------------------------------------------- C7

\* C7: after evhNodeHostName has built a secure host whose certs are
\* available, the host is in the hosts of the parent's redirect policy when
\* the TLS setting asks for the redirect, the hosts that were in the policy
\* before are kept, and the host is in no redirect policy when the TLS
\* setting does not ask for the redirect.
C7_RedirectHost ==
    LET \* the TLS settings an ingress can carry
        TlsSettings(ing) ==
            UNION {Range(Parsed(ing, cfg, order).TlsCollection) :
                       cfg \in IngressCfgs(ing), order \in SeqsOf(Hosts)}
        CertsAvailable(tlssetting) == tlssetting.cert \notin {"missing", "routeEmpty"}
    IN
    \A ing \in Ings : \A tlssetting \in TlsSettings(ing) : \A order \in SeqsOf(Hosts) :
        \A host \in DOMAIN tlssetting.Hosts :
            LET m == DeriveHostNameShardVSForEvh(host)
                before == IF m \in DOMAIN graphs THEN RedirectHosts(graphs[m]) ELSE {}
                st == evhNodeHostName(State, ing, tlssetting, order)
            IN (CertsAvailable(tlssetting) /\ m # "") =>
                   /\ m \in DOMAIN st.graphs
                   /\ IF tlssetting.redirect
                      THEN /\ host \in RedirectHosts(st.graphs[m])
                           /\ before \ (DOMAIN tlssetting.Hosts) \subseteq RedirectHosts(st.graphs[m])
                      ELSE host \notin RedirectHosts(st.graphs[m])

\* the redirect policy holds h1 and h2; building h1 again without the
\* redirect takes h1 out and keeps h2, building it with the redirect keeps both
C7_Witness ==
    \E vs \in Parents :
        /\ RedirectHosts(vs) = {"h1", "h2"}
        /\ LET off == TlsSettingOf("A", [NoHosts EXCEPT !["h1"] = Secure(SinglePaths(1), FALSE, "secret")], {"h1"})
               on == TlsSettingOf("A", [NoHosts EXCEPT !["h1"] = Secure(SinglePaths(1), TRUE, "secret")], {"h1"})
           IN /\ RedirectHosts(evhNodeHostName(State, "A", off, <<"h1", "h2">>).graphs[vs.Name]) = {"h2"}
              /\ RedirectHosts(evhNodeHostName(State, "A", on, <<"h1", "h2">>).graphs[vs.Name]) = {"h1", "h2"}

\* ----------------------------------------------------------------- C8

\* C8: BuildPolicyPGPoolsForEVH given k backing services of weights w1..wk
\* for one host path leaves the child VS with exactly one pool group of
\* that (ingress, host, path), whose member list has k entries with the
\* ratios w1..wk in input order, also when the pool group existed before.
C8_AlternateBackends ==
    LET \* one path with k backing services, k in 1..MaxBackends, of any weights
        AltPathLists == {AltPaths(ws) : ws \in UNION {[1..k -> 1..MaxWeight] : k \in 1..MaxBackends}}
        \* the child VS that the callers of BuildPolicyPGPoolsForEVH pass: the child
        \* of the host when the parent has one, a new child otherwise
        ChildFor(vs, ing, host) == EvhNodeOf(vs, ing, host)
    IN
    \A vs \in Parents : \A ing \in Ings : \A host \in Hosts : \A paths \in AltPathLists :
        LET b == BuildPolicyPGPoolsForEVH(vs, ChildFor(vs, ing, host), ing, host, paths)
            pgName == GetEvhVsPoolNPgName(ing, host, paths[1].Path)
            pgs == SelectSeq(b.child.PoolGroupRefs, LAMBDA pg : pg.Name = pgName)
        IN /\ Len(pgs) = 1
           /\ Len(pgs[1].Members) = Len(paths)
           /\ \A i \in 1..Len(paths) : pgs[1].Members[i].Ratio = paths[i].weight

\* ---------------------------------------------------------------- C10

\* the parent of the host in the graphs gs holds no TLS key/cert node of it
NoTlsNodeOf(gs, host) ==
    LET m == DeriveHostNameShardVSForEvh(host)
    IN m \in DOMAIN gs => GetTLSKeyCertNodeName(host) \notin Names(gs[m].SSLKeyCertRefs)

\* C10: when an update changes a host from stored secure-edge to incoming
\* insecure-allow, the resulting graph has no TLS key/cert node of the host,
\* the host is not in the hosts of the redirect policy, and the child VS of
\* the host exists and owns a pool and a pool group of every incoming path.
C10_SecureToInsecure ==
    LET \* the host is stored secure-edge for the ingress and arrives insecure-allow
        SecureToInsecure(ing, cfg, host) ==
            /\ ing \in DOMAIN stored
            /\ host \in DOMAIN stored[ing]
            /\ stored[ing][host].SecurePolicy = PolicyEdgeTerm
            /\ cfg[host].mode = "insecure"
            /\ DeriveHostNameShardVSForEvh(host) # ""
        \* the host is not in the hosts of the redirect policy of its parent
        NotRedirected(gs, host) ==
            LET m == DeriveHostNameShardVSForEvh(host)
            IN m \in DOMAIN gs => host \notin RedirectHosts(gs[m])
        \* the child VS of the host exists and owns a pool and a pool group of every
        \* path of the list
        OwnsPaths(gs, ing, host, paths) ==
            LET m == DeriveHostNameShardVSForEvh(host)
                idx == GetEvhNodeForName(gs[m], GetEvhNodeName(ing, host))
            IN /\ m \in DOMAIN gs
               /\ idx # 0
               /\ \A i \in 1..Len(paths) :
                      LET n == GetEvhVsPoolNPgName(ing, host, paths[i].Path)
                      IN /\ n \in Names(gs[m].EvhNodes[idx].PoolRefs)
                         /\ n \in Names(gs[m].EvhNodes[idx].PoolGroupRefs)
    IN
    \A ing \in Ings : \A cfg \in IngressCfgs(ing) : \A order \in SeqsOf(Hosts) : \A host \in Hosts :
        SecureToInsecure(ing, cfg, host) =>
            LET st == AfterUpdate(ing, cfg, order)
            IN /\ NoTlsNodeOf(st.graphs, host)
               /\ NotRedirected(st.graphs, host)
               /\ OwnsPaths(st.graphs, ing, host, cfg[host].paths)

\* the pool group of a path exists from an earlier build with MaxBackends
\* members, and a build with other weights gives it the new ratios
C8_Witness ==
    \E vs \in Parents : \E i \in 1..Len(vs.EvhNodes) : \E j \in 1..Len(vs.EvhNodes[i].PoolGroupRefs) :
        LET pg == vs.EvhNodes[i].PoolGroupRefs[j]
            ws == [k \in 1..MaxBackends |-> 1]
            b == BuildPolicyPGPoolsForEVH(vs, vs.EvhNodes[i], "A", "h1", AltPaths(ws))
        IN /\ pg.Name = GetEvhVsPoolNPgName("A", "h1", 1)
           /\ vs.EvhNodes[i].Name = GetEvhNodeName("A", "h1")
           /\ [k \in 1..Len(pg.Members) |-> pg.Members[k].Ratio] = DescWeights
           /\ \E n \in 1..Len(b.child.PoolGroupRefs) :
                  /\ b.child.PoolGroupRefs[n].Name = pg.Name
                  /\ [k \in 1..Len(b.child.PoolGroupRefs[n].Members) |->
                         b.child.PoolGroupRefs[n].Members[k].Ratio] = ws

\* ----------------------------------------------------------------- C9
\* C9: every mutation of a graph by the builder happens while the mutating
\* worker holds the lock of that graph.
C9_MutationsUnderLock == mut.locked

\* ---------------------------------------------------------------- C11
\* the path lists a host can arrive with: paths 1..k, or one path alone
PathLists == {SinglePaths(k) : k \in 1..MaxPaths} \cup {<<Entry(p, 1, 1)>> : p \in Paths}

\* the ingress exists and the host is stored secure-edge for it on a shard
StoredSecure(ing, host) ==
    /\ ing \in DOMAIN resources
    /\ ing \in DOMAIN stored
    /\ host \in DOMAIN stored[ing]
    /\ stored[ing][host].SecurePolicy = PolicyEdgeTerm
    /\ DeriveHostNameShardVSForEvh(host) # ""

\* the update of the ingress in which the host arrives secure with the
\* paths pl and the redirect setting r, its certs available
SecureUpdate(ing, host, pl, r) == [resources[ing] EXCEPT ![host] = Secure(pl, r, "secret")]

\* C11: when a host stored secure-edge arrives secure-edge with other
\* paths, only the pools, pool groups and HTTP policies of the stored paths
\* that are not incoming are removed; those of the other paths, the child
\* VS, its FQDN in the VSVIP and, when the redirect is asked for, its
\* redirect host stay.
C11_SecureToSecure ==
    LET \* what the secure-to-secure transition is to leave: the leaves of the
        \* stored paths that are not incoming are gone from the child VS, every
        \* other leaf that the child VS had is still there, the child VS is there,
        \* its host is in the VSVIP FQDNs and, when asked for, in the redirect hosts
        OnlyDeletedPathsRemoved(pre, post, ing, host, pl, r) ==
            LET m == DeriveHostNameShardVSForEvh(host)
                gone == {GetEvhVsPoolNPgName(ing, host, p) :
                             p \in (DOMAIN stored[ing][host].PathSvc) \ {pl[i].Path : i \in 1..Len(pl)}}
                i0 == IF m \in DOMAIN pre THEN GetEvhNodeForName(pre[m], GetEvhNodeName(ing, host)) ELSE 0
                i1 == GetEvhNodeForName(post[m], GetEvhNodeName(ing, host))
                Left(before, after) == /\ Names(after) \cap gone = {}
                                       /\ Names(before) \ gone \subseteq Names(after)
            IN /\ m \in DOMAIN post
               /\ i1 # 0
               /\ i0 # 0 => /\ Left(pre[m].EvhNodes[i0].PoolRefs, post[m].EvhNodes[i1].PoolRefs)
                            /\ Left(pre[m].EvhNodes[i0].PoolGroupRefs, post[m].EvhNodes[i1].PoolGroupRefs)
                            /\ Left(pre[m].EvhNodes[i0].HttpPolicyRefs, post[m].EvhNodes[i1].HttpPolicyRefs)
               /\ HasElem(post[m].FQDNs, host)
               /\ r => host \in RedirectHosts(post[m])
    IN
    \A ing \in Ings : \A host \in Hosts : \A pl \in PathLists : \A r \in BOOLEAN :
        \A order \in SeqsOf(Hosts) :
            StoredSecure(ing, host) =>
                OnlyDeletedPathsRemoved(graphs, AfterUpdate(ing, SecureUpdate(ing, host, pl, r), order).graphs,
                                        ing, host, pl, r)

\* the host is stored secure-edge with MaxPaths paths, its child VS holds
\* the pool of each, and the update to path 1 alone leaves pool 1 and
\* takes the pool of path MaxPaths away
C11_Witness ==
    /\ StoredSecure("A", "h1")
    /\ DOMAIN stored["A"]["h1"].PathSvc = 1..MaxPaths
    /\ \E vs \in Parents : \E i \in 1..Len(vs.EvhNodes) :
           /\ vs.EvhNodes[i].Name = GetEvhNodeName("A", "h1")
           /\ {GetEvhVsPoolNPgName("A", "h1", p) : p \in 1..MaxPaths} \subseteq Names(vs.EvhNodes[i].PoolRefs)
           /\ LET post == AfterUpdate("A", SecureUpdate("A", "h1", SinglePaths(1), FALSE), <<"h1", "h2">>).graphs[vs.Name]
                  j == GetEvhNodeForName(post, GetEvhNodeName("A", "h1"))
              IN /\ j # 0
                 /\ GetEvhVsPoolNPgName("A", "h1", 1) \in Names(post.EvhNodes[j].PoolRefs)
                 /\ GetEvhVsPoolNPgName("A", "h1", MaxPaths) \notin Names(post.EvhNodes[j].PoolRefs)

\* ---------------------------------------------------------------- C12
\* the host is stored for the ingress on a shard that has a graph, and the
\* update of the ingress does not carry it
StoredNotIncoming(ing, cfg, host) ==
    /\ ing \in DOMAIN stored
    /\ host \in DOMAIN stored[ing]
    /\ cfg[host].mode = "absent"
    /\ DeriveHostNameShardVSForEvh(host) \in DOMAIN graphs

\* C12: for a host that is stored and is not in the incoming map, after
\* DeleteStaleDataForEvh the pool, pool group and HTTP policy of every
\* stored path of the host are gone; a child VS left without a pool is
\* removed from the parent, and then its host is neither in the VSVIP FQDNs
\* nor in the hosts of the redirect policy.
C12_StaleHostRemoved ==
    \A ing \in Ings : \A cfg \in IngressCfgs(ing) : \A order \in SeqsOf(Hosts) : \A host \in Hosts :
        StoredNotIncoming(ing, cfg, host) =>
            LET m == DeriveHostNameShardVSForEvh(host)
                post == AfterUpdate(ing, cfg, order).graphs[m]
                i0 == GetEvhNodeForName(graphs[m], GetEvhNodeName(ing, host))
                i1 == GetEvhNodeForName(post, GetEvhNodeName(ing, host))
            IN /\ i1 # 0 =>
                   /\ \A p \in DOMAIN stored[ing][host].PathSvc :
                          GetEvhVsPoolNPgName(ing, host, p) \notin LeafNames(post.EvhNodes[i1])
                   /\ Len(post.EvhNodes[i1].PoolRefs) > 0
               /\ (i0 # 0 /\ i1 = 0) =>
                   /\ ~HasElem(post.FQDNs, host)
                   /\ host \notin RedirectHosts(post)

\* ingress A holds h1 and h2, both in the redirect policy; the update that
\* drops h1 removes the pools and the child VS of h1, its FQDN and its
\* redirect host, and leaves the child VS of h2
C12_Witness ==
    /\ "A" \in DOMAIN resources
    /\ resources["A"]["h2"].mode = "secure"
    /\ StoredNotIncoming("A", [resources["A"] EXCEPT !["h1"] = Absent], "h1")
    /\ LET m == DeriveHostNameShardVSForEvh("h1")
           i0 == GetEvhNodeForName(graphs[m], GetEvhNodeName("A", "h1"))
           post == AfterUpdate("A", [resources["A"] EXCEPT !["h1"] = Absent], <<"h1", "h2">>).graphs[m]
       IN /\ i0 # 0
          /\ GetEvhVsPoolNPgName("A", "h1", 1) \in Names(graphs[m].EvhNodes[i0].PoolRefs)
          /\ RedirectHosts(graphs[m]) = {"h1", "h2"}
          /\ GetEvhNodeForName(post, GetEvhNodeName("A", "h1")) = 0
          /\ ~HasElem(post.FQDNs, "h1")
          /\ RedirectHosts(post) = {"h2"}
          /\ ChildHosts(post) = {"h2"}

\* ---------------------------------------------------------------- C13

\* C13: when a host stored insecure-allow arrives secure-edge,
\* ProcessSecureHostsForEVH sets the stored InsecurePolicy of the host to
\* none, and after the secure build and DeleteStaleDataForEvh the child VS
\* of the host owns pools, pool groups and HTTP policies of exactly the
\* incoming secure paths.
C13_InsecureToSecure ==
    LET \* the names of the pools, pool groups and HTTP policies that the child VS
        \* of the host holds for the ingress
        LeavesOf(gs, ing, host) ==
            LET m == DeriveHostNameShardVSForEvh(host)
                idx == IF m \in DOMAIN gs THEN GetEvhNodeForName(gs[m], GetEvhNodeName(ing, host)) ELSE 0
            IN IF idx = 0 THEN [pools |-> {}, groups |-> {}, policies |-> {}]
               ELSE [pools |-> {n \in Names(gs[m].EvhNodes[idx].PoolRefs) : n[1] = ing},
                     groups |-> {n \in Names(gs[m].EvhNodes[idx].PoolGroupRefs) : n[1] = ing},
                     policies |-> {n \in Names(gs[m].EvhNodes[idx].HttpPolicyRefs) : n[1] = ing}]
    IN
    \A ing \in Ings : \A host \in Hosts : \A pl \in PathLists : \A r \in BOOLEAN :
        \A order \in SeqsOf(Hosts) :
            (/\ ing \in DOMAIN resources
             /\ ing \in DOMAIN stored
             /\ host \in DOMAIN stored[ing]
             /\ stored[ing][host].InsecurePolicy = PolicyAllow
             /\ DeriveHostNameShardVSForEvh(host) # "") =>
                LET cfg == SecureUpdate(ing, host, pl, r)
                    ev0 == [graphs |-> graphs, lister |-> lister,
                            Storedhosts |-> stored[ing], hostsMap |-> EmptyMap]
                    ev1 == ProcessSecureHostsForEVH(ev0, ing, Parsed(ing, cfg, order), order)
                    incoming == {GetEvhVsPoolNPgName(ing, host, pl[i].Path) : i \in 1..Len(pl)}
                IN /\ ev1.Storedhosts[host].InsecurePolicy = PolicyNone
                   /\ LeavesOf(AfterUpdate(ing, cfg, order).graphs, ing, host) =
                          [pools |-> incoming, groups |-> incoming, policies |-> incoming]

\* ---------------------------------------------------------------- C14

\* C14: when the cert or key of a secure host of an ingress cannot be
\* obtained, then after evhNodeHostName the parent VS holds no child VS of
\* the host, no TLS key/cert node of the host, and the host-name lister does
\* not map the ingress to the host.
C14_CertFailure ==
    LET \* the TLS setting of one secure host whose cert or key cannot be obtained:
        \* the secret, its cert entry or its key entry is missing ("missing"), or
        \* the inline cert or key of a Route is empty ("routeEmpty")
        FailingTls(ing, host, r, c) ==
            TlsSettingOf(ing, [NoHosts EXCEPT ![host] = Secure(SinglePaths(1), r, c)], {host})
        \* the parent of the host holds no child VS of (ing, host), no TLS key/cert
        \* node of the host, and the lister does not map the ingress to the host
        NoChildNoCert(st, ing, host) ==
            LET m == DeriveHostNameShardVSForEvh(host)
            IN /\ m \in DOMAIN st.graphs =>
                      GetEvhNodeForName(st.graphs[m], GetEvhNodeName(ing, host)) = 0
               /\ NoTlsNodeOf(st.graphs, host)
               /\ host \in DOMAIN st.lister => ing \notin st.lister[host]
    IN
    \A ing \in Ings : \A host \in Hosts : \A r \in BOOLEAN : \A c \in {"missing", "routeEmpty"} :
        DeriveHostNameShardVSForEvh(host) # "" =>
            NoChildNoCert(evhNodeHostName(State, ing, FailingTls(ing, host, r, c), <<"h1", "h2">>),
                          ing, host)

\* ---------------------------------------------------------------- C15

\* C15: when the shard size is 0, DeriveHostNameShardVSForEvh returns "" and
\* ProcessInsecureHostsForEVH, ProcessSecureHostsForEVH (through
\* evhNodeHostName) and DeleteStaleDataForEvh leave the graphs, the stored
\* host map, the output host map and the host-name lister as they were.
C15_NoShardNoMutation ==
    LET \* the state an add/update event of the ingress starts from: the graphs, the
        \* lister, the stored host map of the ingress and the empty output host map
        EventStart(ing) ==
            [graphs |-> graphs,
             lister |-> lister,
             Storedhosts |-> IF ing \in DOMAIN stored THEN stored[ing] ELSE EmptyMap,
             hostsMap |-> EmptyMap]
    IN
    shardSize = 0 =>
        \A ing \in Ings : \A cfg \in IngressCfgs(ing) : \A order \in SeqsOf(Hosts) :
            /\ \A host \in Hosts : DeriveHostNameShardVSForEvh(host) = ""
            /\ ProcessInsecureHostsForEVH(EventStart(ing), ing, Parsed(ing, cfg, order), order)
                   = EventStart(ing)
            /\ ProcessSecureHostsForEVH(EventStart(ing), ing, Parsed(ing, cfg, order), order)
                   = EventStart(ing)
            /\ DeleteStaleDataForEvh(EventStart(ing), ing, order) = EventStart(ing)

\* ============================================== host-rule overlay (CRDs)
\* crd_translator.go.  The objects of the ADC that a CRD can name are the
\* pairs <<model, name>> of OnController: "ref" exists under every model,
\* "ps2" is a second HTTP policy set, "app" exists as an application profile
\* only, "hm" as a health monitor only, "seg" as a service engine group only,
\* "segl" is a service engine group with a list of labels,
\* "l4app" is an application profile of another type than the allowed one,
\* "own" a WAF policy that this controller instance created, "BADREF" exists
\* nowhere, and the GET of the SSL profile "err" fails.
StatusAccepted == "Accepted"
StatusRejected == "Rejected"

refModelMap ==
    [SslKeyCert |-> "sslkeyandcertificate",
     WafPolicy |-> "wafpolicy",
     HttpPolicySet |-> "httppolicyset",
     SslProfile |-> "sslprofile",
     AppProfile |-> "applicationprofile",
     AnalyticsProfile |-> "analyticsprofile",
     ErrorPageProfile |-> "errorpageprofile",
     VsDatascript |-> "vsdatascriptset",
     HealthMonitor |-> "healthmonitor",
     ServiceEngineGroup |-> "serviceenginegroup",
     Network |-> "network"]

OnController ==
    {<<refModelMap[k], "ref">> : k \in DOMAIN refModelMap}
        \cup {<<"httppolicyset", "ps2">>, <<"applicationprofile", "app">>,
              <<"healthmonitor", "hm">>, <<"serviceenginegroup", "seg">>,
              <<"applicationprofile", "l4app">>, <<"wafpolicy", "own">>,
              <<"serviceenginegroup", "segl">>}

AllowedApplicationProfile == "APPLICATION_PROFILE_TYPE_HTTP"
AKOUser == "ako-cluster"

\* lib.AviGetCollectionRaw for /api/<model>?name=<name>&fields=name,type,
\* labels,created_by: the error of the GET, the count of the results and the
\* first result as JSON, a field being a JSON string or a JSON array
AviGetCollectionRaw(model, name) ==
    LET Str(s) == [kind |-> "string", v |-> s]
        item == [name |-> Str(name)]
                @@ (IF model = "applicationprofile"
                    THEN [type |-> Str(IF name = "l4app" THEN "APPLICATION_PROFILE_TYPE_L4"
                                       ELSE AllowedApplicationProfile)]
                    ELSE <<>>)
                @@ (IF model = "serviceenginegroup" /\ name = "segl"
                    THEN [labels |-> [kind |-> "array", v |-> ""]]
                    ELSE <<>>)
                @@ (IF <<model, name>> = <<"wafpolicy", "own">>
                    THEN [created_by |-> Str(AKOUser)]
                    ELSE IF name = "ref" THEN [created_by |-> Str("admin")]
                    ELSE <<>>)
    IN [err |-> <<model, name>> = <<"sslprofile", "err">>,
        Count |-> IF <<model, name>> \in OnController THEN 1 ELSE 0,
        item |-> item]

\* variant: the creator of the object is not looked at
checkRefOnController_AnyCreator(refKey, refValue) ==
    LET result == AviGetCollectionRaw(refModelMap[refKey], refValue)
        what == refModelMap[refKey] \o " \"" \o refValue \o "\""
    IN IF result.err \/ result.Count = 0 THEN what \o " not found on controller"
       ELSE IF \E f \in DOMAIN result.item : result.item[f].kind # "string"
       THEN what \o " found on controller is invalid"
       ELSE IF /\ refKey = "AppProfile" /\ "type" \in DOMAIN result.item
               /\ result.item.type.v # AllowedApplicationProfile
       THEN what \o " found on controller is invalid, must be of type: " \o AllowedApplicationProfile
       ELSE IF /\ refKey = "ServiceEngineGroup" /\ "labels" \in DOMAIN result.item
               /\ result.item.labels.v # ""
       THEN what \o " found on controller is invalid, mismatched labels: " \o result.item.labels.v
       ELSE ""

\* checkRefOnController: the error it returns, "" for nil.  The result is
\* unmarshalled into a map of strings, which fails for a field that is not
\* a JSON string; labels that are a string never equal lib.GetLabels(), a
\* list
checkRefOnController(refKey, refValue) ==
    LET result == AviGetCollectionRaw(refModelMap[refKey], refValue)
        what == refModelMap[refKey] \o " \"" \o refValue \o "\""
    IN IF result.err \/ result.Count = 0 THEN what \o " not found on controller"
       ELSE IF \E f \in DOMAIN result.item : result.item[f].kind # "string"
       THEN what \o " found on controller is invalid"
       ELSE IF /\ refKey = "AppProfile" /\ "type" \in DOMAIN result.item
               /\ result.item.type.v # AllowedApplicationProfile
       THEN what \o " found on controller is invalid, must be of type: " \o AllowedApplicationProfile
       ELSE IF /\ refKey = "ServiceEngineGroup" /\ "labels" \in DOMAIN result.item
               /\ result.item.labels.v # ""
       THEN what \o " found on controller is invalid, mismatched labels: " \o result.item.labels.v
       ELSE IF "created_by" \in DOMAIN result.item /\ result.item.created_by.v = AKOUser
       THEN what \o " Invalid operation, object referred is created by current AKO instance"
       ELSE ""

\* the map a sequence of refData[name] = kind assignments leaves: a later
\* assignment to a name replaces the kind an earlier one gave it
RefDataOf(pairs) ==
    [k \in {pairs[i][1] : i \in 1..Len(pairs)} |->
        LET last == CHOOSE i \in 1..Len(pairs) :
                        /\ pairs[i][1] = k
                        /\ \A j \in (i + 1)..Len(pairs) : pairs[j][1] # k
        IN pairs[last][2]]

\* the errors checkRefsOnController can return, "" for nil: the error of the
\* first ref that fails in the order in which the map is ranged over (the
\* empty name is skipped)
checkRefsOnController(refMap) ==
    LET failing == {k \in DOMAIN refMap : k # "" /\ checkRefOnController(refMap[k], k) # ""}
    IN IF failing = {} THEN {""}
       ELSE {checkRefOnController(refMap[k], k) : k \in failing}

\* what a call of a validate function does: the statuses it writes to the
\* CRD, in order, and the error it returns ("" for nil)
Validated(err) ==
    [writes |-> <<[Status |-> IF err = "" THEN StatusAccepted ELSE StatusRejected,
                   Error |-> err]>>,
     err |-> err]

\* the virtualHost of a HostRule that sets nothing
NoVirtualHost ==
    [Fqdn |-> "", SSLKeyCertificate |-> "", SSLProfile |-> "", WAFPolicy |-> "",
     ApplicationProfile |-> "", ErrorPageProfile |-> "", AnalyticsProfile |-> "",
     PolicySets |-> <<>>, Overwrite |-> FALSE, Datascripts |-> <<>>,
     EnableVirtualHost |-> "nil"]

\* variant: a FQDN that is mapped is a duplicate, whichever HostRule owns it
validateHostRuleObj_OwnerIsDuplicate(fqdnMap, hr, vh) ==
    LET refData ==
            RefDataOf(<<<<vh.WAFPolicy, "WafPolicy">>,
                        <<vh.ApplicationProfile, "AppProfile">>,
                        <<vh.SSLKeyCertificate, "SslKeyCert">>,
                        <<vh.SSLProfile, "SslProfile">>,
                        <<vh.AnalyticsProfile, "AnalyticsProfile">>,
                        <<vh.ErrorPageProfile, "ErrorPageProfile">>>>
                      \o [i \in 1..Len(vh.PolicySets) |-> <<vh.PolicySets[i], "HttpPolicySet">>]
                      \o [i \in 1..Len(vh.Datascripts) |-> <<vh.Datascripts[i], "VsDatascript">>])
    IN IF vh.Fqdn \in DOMAIN fqdnMap
       THEN {Validated("duplicate fqdn " \o vh.Fqdn \o " found in " \o fqdnMap[vh.Fqdn])}
       ELSE {Validated(err) : err \in checkRefsOnController(refData)}

\* the outcomes of validateHostRuleObj for the HostRule hr with virtualHost
\* vh, fqdnMap being the FQDN to HostRule mapping of the CRD lister; refData
\* is written by the map literal, then for the policy sets, then for the
\* datascripts
validateHostRuleObj(fqdnMap, hr, vh) ==
    LET refData ==
            RefDataOf(<<<<vh.WAFPolicy, "WafPolicy">>,
                        <<vh.ApplicationProfile, "AppProfile">>,
                        <<vh.SSLKeyCertificate, "SslKeyCert">>,
                        <<vh.SSLProfile, "SslProfile">>,
                        <<vh.AnalyticsProfile, "AnalyticsProfile">>,
                        <<vh.ErrorPageProfile, "ErrorPageProfile">>>>
                      \o [i \in 1..Len(vh.PolicySets) |-> <<vh.PolicySets[i], "HttpPolicySet">>]
                      \o [i \in 1..Len(vh.Datascripts) |-> <<vh.Datascripts[i], "VsDatascript">>])
    IN IF vh.Fqdn \in DOMAIN fqdnMap /\ fqdnMap[vh.Fqdn] # hr
       THEN {Validated("duplicate fqdn " \o vh.Fqdn \o " found in " \o fqdnMap[vh.Fqdn])}
       ELSE {Validated(err) : err \in checkRefsOnController(refData)}

\* refData of validateHTTPRuleObj: per path the SSL profile, then the
\* health monitors
RECURSIVE HTTPRuleRefPairs(_, _)
HTTPRuleRefPairs(paths, i) ==
    IF i > Len(paths) THEN <<>>
    ELSE <<<<paths[i].TLS.SSLProfile, "SslProfile">>>>
             \o [j \in 1..Len(paths[i].HealthMonitors) |-> <<paths[i].HealthMonitors[j], "HealthMonitor">>]
             \o HTTPRuleRefPairs(paths, i + 1)

validateHTTPRuleObj(paths) ==
    {Validated(err) : err \in checkRefsOnController(RefDataOf(HTTPRuleRefPairs(paths, 1)))}

\* validateAviInfraSetting (the labelling of the SE group by addSeGroupLabel
\* changes no state of the model)
validateAviInfraSetting(infra) ==
    {Validated(err) : err \in
        checkRefsOnController(
            RefDataOf(<<<<infra.Network, "Network">>>>
                      \o IF infra.SeGroup # "" THEN <<<<infra.SeGroup, "ServiceEngineGroup">>>>
                         ELSE <<>>))}

\* fmt.Sprintf("/api/<model>?name=%s", name)
ApiRef(model, name) == "/api/" \o model \o "?name=" \o name

\* variant: every listed name gives a ref, repeated names included
UniqueRefs_All(model, names) == [i \in 1..Len(names) |-> ApiRef(model, names[i])]

\* the refs of the listed names in the order of the list, a name that was
\* listed before being skipped
UniqueRefs(model, names) ==
    LET first == SelectSeq([i \in 1..Len(names) |-> i],
                           LAMBDA i : \A j \in 1..(i - 1) : names[j] # names[i])
    IN [k \in 1..Len(first) |-> ApiRef(model, names[first[k]])]

\* a spec field that is set gives the ref of its name, one that is empty
\* gives the empty ref
OptRef(model, name) == IF name = "" THEN "" ELSE ApiRef(model, name)

NoCRDStatus == [Type |-> "", Value |-> "", Status |-> ""]

\* the fields of a VS that a HostRule sets, as a new VS node has them
NoHostRuleFields ==
    [SSLKeyCertAviRef |-> "", WafPolicyRef |-> "", HttpPolicySetRefs |-> <<>>,
     AppProfileRef |-> "", AnalyticsProfileRef |-> "", ErrorPageProfileRef |-> "",
     SSLProfileRef |-> "", VsDatascriptRefs |-> <<>>, Enabled |-> "nil",
     CRDStatus |-> NoCRDStatus]

\* BuildL7HostRule with the HostRule hr found and not rejected
ApplyHostRule(hr, vh, vsNode) ==
    [vsNode EXCEPT
        !.SSLKeyCertRefs = IF vh.SSLKeyCertificate # "" THEN <<>> ELSE @,
        !.HttpPolicyRefs = IF vh.Overwrite THEN <<>> ELSE @,
        !.SSLKeyCertAviRef = OptRef("sslkeyandcertificate", vh.SSLKeyCertificate),
        !.WafPolicyRef = OptRef("wafpolicy", vh.WAFPolicy),
        !.HttpPolicySetRefs = UniqueRefs("httppolicyset", vh.PolicySets),
        !.AppProfileRef = OptRef("applicationprofile", vh.ApplicationProfile),
        !.AnalyticsProfileRef = OptRef("analyticsprofile", vh.AnalyticsProfile),
        !.ErrorPageProfileRef = OptRef("errorpageprofile", vh.ErrorPageProfile),
        !.SSLProfileRef = OptRef("sslprofile", vh.SSLProfile),
        !.VsDatascriptRefs = UniqueRefs("vsdatascriptset", vh.Datascripts),
        !.Enabled = vh.EnableVirtualHost,
        !.CRDStatus = [Type |-> "HostRule", Value |-> hr, Status |-> "ACTIVE"]]

\* variant: the CRD status of the VS is kept as it is
DeleteCaseStatus_Keep(vsNode) == vsNode.CRDStatus

\* the CRD status in the delete case: a status with a value becomes INACTIVE
DeleteCaseStatus(vsNode) ==
    IF vsNode.CRDStatus.Value # ""
    THEN [vsNode.CRDStatus EXCEPT !.Status = "INACTIVE"]
    ELSE NoCRDStatus

\* BuildL7HostRule in the delete case: no HostRule is found for the host
ClearHostRule(vsNode) ==
    [f \in DOMAIN vsNode |->
        IF f = "CRDStatus" THEN DeleteCaseStatus(vsNode)
        ELSE IF f \in DOMAIN NoHostRuleFields THEN NoHostRuleFields[f]
        ELSE vsNode[f]]

\* variant: a rejected HostRule is applied like an accepted one
BuildL7HostRule_ApplyRejected(host, vsNode) ==
    IF host \in DOMAIN fqdnToHostrule /\ fqdnToHostrule[host] \in DOMAIN hostrules
    THEN ApplyHostRule(fqdnToHostrule[host], hostrules[fqdnToHostrule[host]].Spec, vsNode)
    ELSE ClearHostRule(vsNode)

\* fqdnToHostrule is GetFQDNToHostruleMapping of the CRD lister, hostrules the
\* HostRule objects of the informer
BuildL7HostRule(host, vsNode) ==
    IF host \in DOMAIN fqdnToHostrule /\ fqdnToHostrule[host] \in DOMAIN hostrules
    THEN IF hostrules[fqdnToHostrule[host]].Status = StatusRejected
         THEN vsNode
         ELSE ApplyHostRule(fqdnToHostrule[host], hostrules[fqdnToHostrule[host]].Spec, vsNode)
    ELSE ClearHostRule(vsNode)

\* ------------------------------------------------------- CRD inputs
HostRuleNames == {"hr1", "hr2"}

\* the host whose VS the overlay is followed on
CrdHost == "h1"

\* a HostRule that sets every field, the lists with a repeated name
FullVirtualHost(h) ==
    [Fqdn |-> h, SSLKeyCertificate |-> "ref", SSLProfile |-> "ref", WAFPolicy |-> "ref",
     ApplicationProfile |-> "app", ErrorPageProfile |-> "ref", AnalyticsProfile |-> "ref",
     PolicySets |-> <<"ref", "ps2", "ref">>, Overwrite |-> TRUE,
     Datascripts |-> <<"ref", "ref">>, EnableVirtualHost |-> "true"]

VirtualHosts(hr) ==
    IF hr = "hr1"
    THEN {FullVirtualHost(CrdHost),
          [NoVirtualHost EXCEPT !.Fqdn = "h2", !.WAFPolicy = "ref", !.EnableVirtualHost = "false"],
          [NoVirtualHost EXCEPT !.Fqdn = CrdHost, !.WAFPolicy = "app", !.ApplicationProfile = "app"],
          [NoVirtualHost EXCEPT !.Fqdn = CrdHost, !.WAFPolicy = "own"]}
         \cup {[NoVirtualHost EXCEPT !.Fqdn = CrdHost, !.WAFPolicy = w, !.EnableVirtualHost = "false"] :
                   w \in {"ref", "BADREF"}}
    ELSE {[NoVirtualHost EXCEPT !.Fqdn = CrdHost, !.ApplicationProfile = "ref"],
          [NoVirtualHost EXCEPT !.Fqdn = CrdHost, !.ApplicationProfile = "l4app"]}

\* the paths of an HTTPRule, with the fields that validation reads
HTTPRuleSpecs ==
    LET HTTPRulePath(ssl, hms) == [Target |-> 1, TLS |-> [SSLProfile |-> ssl], HealthMonitors |-> hms]
    IN {<<HTTPRulePath("hm", <<"hm">>)>>,
        <<HTTPRulePath("err", <<"ref", "hm">>), HTTPRulePath("ref", <<>>)>>}

AviInfraSettings ==
    {[Network |-> "ref", SeGroup |-> "segl"], [Network |-> "seg", SeGroup |-> "seg"]}

\* the VS of CrdHost as the builder leaves it: the child VS with the pool,
\* pool group and HTTP policy of one path, without or with a TLS key/cert
\* node of its own
VsModels ==
    LET parent == ConstructAviL7SharedVsNodeForEvh("Shared-L7-EVH-0")
        child == BuildPolicyPGPoolsForEVH(parent, NewEvhNode("A", CrdHost, parent),
                                          "A", CrdHost, SinglePaths(1)).child
                     @@ NoHostRuleFields @@ [SSLKeyCertRefs |-> <<>>, CACertRefs |-> <<>>]
    IN {child,
        BuildTlsCertNodeForEvh(child, [SecretName |-> <<"A", "secret">>, cert |-> "secret"],
                               CrdHost).node}

\* ------------------------------------------------------ CRD actions
graphVars == <<shardSize, graphs, lister, stored, resources, workerVars>>

\* the FQDN mapping without the FQDNs of the HostRule
DeleteHostruleFQDNMapping(fqdnMap, hr) ==
    [h \in {h \in DOMAIN fqdnMap : fqdnMap[h] # hr} |-> fqdnMap[h]]

\* a HostRule is added or updated: it is validated, and an accepted
\* HostRule is mapped to its FQDN in place of the FQDN it had
HostRuleAddUpdate(hr, vh) ==
    \E res \in validateHostRuleObj(fqdnToHostrule, hr, vh) :
       /\ hostrules' = Put(hostrules, hr, [Spec |-> vh] @@ res.writes[Len(res.writes)])
       /\ fqdnToHostrule' = IF res.err = ""
                            THEN Put(DeleteHostruleFQDNMapping(fqdnToHostrule, hr), vh.Fqdn, hr)
                            ELSE fqdnToHostrule
       /\ UNCHANGED <<otherCrds, vsModel, graphVars, httpRuleVars, ckNode, restVars>>

HostRuleDelete(hr) ==
    /\ hr \in DOMAIN hostrules
    /\ hostrules' = Del(hostrules, hr)
    /\ fqdnToHostrule' = DeleteHostruleFQDNMapping(fqdnToHostrule, hr)
    /\ UNCHANGED <<otherCrds, vsModel, graphVars, httpRuleVars, ckNode, restVars>>

HTTPRuleAddUpdate(paths) ==
    \E res \in validateHTTPRuleObj(paths) :
       /\ otherCrds' = Put(otherCrds, "HTTPRule", [Spec |-> paths] @@ res.writes[Len(res.writes)])
       /\ UNCHANGED <<hostrules, fqdnToHostrule, vsModel, graphVars, httpRuleVars, ckNode, restVars>>

AviInfraSettingAddUpdate(infra) ==
    \E res \in validateAviInfraSetting(infra) :
       /\ otherCrds' = Put(otherCrds, "AviInfraSetting", [Spec |-> infra] @@ res.writes[Len(res.writes)])
       /\ UNCHANGED <<hostrules, fqdnToHostrule, vsModel, graphVars, httpRuleVars, ckNode, restVars>>

\* the child VS after the builder has built the pools of the host again
BuildHostPools(vsNode) ==
    BuildPolicyPGPoolsForEVH(ConstructAviL7SharedVsNodeForEvh(vsNode.VHParentName),
                             vsNode, "A", CrdHost, SinglePaths(1)).child

\* the ingress of CrdHost is processed again: the pools are built and the
\* HostRule of the host is applied to the child VS
BuildHost ==
    /\ vsModel' = BuildL7HostRule(CrdHost, BuildHostPools(vsModel))
    /\ UNCHANGED <<hostrules, fqdnToHostrule, otherCrds, graphVars, httpRuleVars, ckNode, restVars>>

InitCRD ==
    /\ shardSize = 1
    /\ graphs = EmptyMap
    /\ lister = EmptyMap
    /\ stored = EmptyMap
    /\ resources = EmptyMap
    /\ pc = [w \in Ings |-> "idle"]
    /\ job = [w \in Ings |-> IdleJob]
    /\ priv = [w \in Ings |-> NilGraph]
    /\ lock = [w \in Ings |-> FALSE]
    /\ mut = NoMutation
    /\ hostrules = EmptyMap
    /\ fqdnToHostrule = EmptyMap
    /\ otherCrds = EmptyMap
    /\ vsModel \in VsModels
    /\ httprules = EmptyMap
    /\ pathRules = EmptyMap
    /\ ckNode = NilGraph
    /\ vsCache = EmptyMap
    /\ vsvipCache = EmptyMap
    /\ lastCall = EmptyMap

NextCRD ==
    \/ \E hr \in HostRuleNames : \E vh \in VirtualHosts(hr) : HostRuleAddUpdate(hr, vh)
    \/ \E hr \in HostRuleNames : HostRuleDelete(hr)
    \/ \E paths \in HTTPRuleSpecs : HTTPRuleAddUpdate(paths)
    \/ \E infra \in AviInfraSettings : AviInfraSettingAddUpdate(infra)
    \/ BuildHost

SpecCRD == InitCRD /\ [][NextCRD]_vars

\* ---------------------------------------------------------------- C16
\* the HostRule mapped to CrdHost has the given status
MappedWithStatus(status) ==
    /\ CrdHost \in DOMAIN fqdnToHostrule
    /\ fqdnToHostrule[CrdHost] \in DOMAIN hostrules
    /\ hostrules[fqdnToHostrule[CrdHost]].Status = status

\* C16 (Reject law): the VS that is built while the HostRule of its host has
\* status Rejected equals the VS built from the same resources without the
\* HostRule: it carries none of the overrides that the HostRule set while
\* it was Accepted (the CRD status of the VS is left aside).
C16_RejectLaw ==
    MappedWithStatus(StatusRejected) =>
        [BuildL7HostRule(CrdHost, BuildHostPools(vsModel)) EXCEPT !.CRDStatus = NoCRDStatus]
            = [ClearHostRule(BuildHostPools(vsModel)) EXCEPT !.CRDStatus = NoCRDStatus]

\* ---------------------------------------------------------------- C17
\* C17: while the HostRule mapped to the host is Rejected, BuildL7HostRule
\* leaves every override field and the CRD status of the VS as they are,
\* so the values of the HostRule as it was last Accepted stay and no value
\* of the rejected spec is adopted.
C17_RejectedKeepsLastAccepted ==
    MappedWithStatus(StatusRejected) =>
        \A v \in {vsModel, BuildHostPools(vsModel)} :
            \A f \in DOMAIN NoHostRuleFields : BuildL7HostRule(CrdHost, v)[f] = v[f]

\* the HostRule was applied with the WAF policy "ref" and is ACTIVE on the
\* VS; its update to the WAF policy BADREF is Rejected, and the next
\* BuildL7HostRule keeps the WAF policy ref and the ACTIVE status
C17_Witness ==
    /\ MappedWithStatus(StatusRejected)
    /\ hostrules[fqdnToHostrule[CrdHost]].Spec.WAFPolicy = "BADREF"
    /\ vsModel.CRDStatus = [Type |-> "HostRule", Value |-> fqdnToHostrule[CrdHost], Status |-> "ACTIVE"]
    /\ vsModel.WafPolicyRef = "/api/wafpolicy?name=ref"
    /\ BuildL7HostRule(CrdHost, BuildHostPools(vsModel)).WafPolicyRef = "/api/wafpolicy?name=ref"
    /\ BuildL7HostRule(CrdHost, BuildHostPools(vsModel)).CRDStatus.Status = "ACTIVE"

\* ---------------------------------------------------------------- C18
\* C18: when no HostRule is mapped to the host, BuildL7HostRule clears every
\* override of the VS, and a CRD status with a value keeps the value and
\* becomes INACTIVE; when an Accepted HostRule is mapped to the host of a VS
\* whose status is INACTIVE, BuildL7HostRule applies the overrides of the
\* HostRule again and the status is ACTIVE with the name of the HostRule.
C18_UnmappedClearsOverrides ==
    \A v \in {vsModel, BuildHostPools(vsModel)} :
        LET post == BuildL7HostRule(CrdHost, v)
        IN /\ CrdHost \notin DOMAIN fqdnToHostrule =>
                 /\ post.SSLKeyCertAviRef = "" /\ post.WafPolicyRef = ""
                 /\ post.AppProfileRef = "" /\ post.AnalyticsProfileRef = ""
                 /\ post.ErrorPageProfileRef = "" /\ post.SSLProfileRef = ""
                 /\ post.HttpPolicySetRefs = <<>> /\ post.VsDatascriptRefs = <<>>
                 /\ post.Enabled = "nil"
                 /\ v.CRDStatus.Value # "" =>
                        /\ post.CRDStatus.Value = v.CRDStatus.Value
                        /\ post.CRDStatus.Type = v.CRDStatus.Type
                        /\ post.CRDStatus.Status = "INACTIVE"
           /\ (MappedWithStatus(StatusAccepted) /\ v.CRDStatus.Status = "INACTIVE") =>
                 /\ post = ApplyHostRule(fqdnToHostrule[CrdHost],
                                         hostrules[fqdnToHostrule[CrdHost]].Spec, v)
                 /\ post.CRDStatus = [Type |-> "HostRule", Value |-> fqdnToHostrule[CrdHost],
                                      Status |-> "ACTIVE"]

\* the VS carries the overrides of hr1, ACTIVE, and hr1 is mapped to the
\* other host or deleted: the next BuildL7HostRule clears the refs and the
\* status is that of hr1, INACTIVE
C18_Witness ==
    /\ CrdHost \notin DOMAIN fqdnToHostrule
    /\ vsModel.CRDStatus = [Type |-> "HostRule", Value |-> "hr1", Status |-> "ACTIVE"]
    /\ vsModel.SSLKeyCertAviRef = "/api/sslkeyandcertificate?name=ref"
    /\ vsModel.HttpPolicySetRefs # <<>>
    /\ BuildL7HostRule(CrdHost, vsModel).SSLKeyCertAviRef = ""
    /\ BuildL7HostRule(CrdHost, vsModel).HttpPolicySetRefs = <<>>
    /\ BuildL7HostRule(CrdHost, vsModel).CRDStatus
           = [Type |-> "HostRule", Value |-> "hr1", Status |-> "INACTIVE"]

\* ---------------------------------------------------------------- C19

\* C19: BuildL7HostRule with an Accepted HostRule sets the ref of every
\* field that is set to /api/<model>?name=<value> and the ref of every empty
\* field to empty; the policy-set and datascript refs name every listed name
\* once, in the order of first occurrence; the TLS key/cert nodes of the VS
\* are emptied exactly when sslKeyCertificate is set, its HTTP policies
\* exactly when overwrite is set; the CRD status is {HostRule, name, ACTIVE}.
C19_AcceptedHostRuleApplied ==
    LET \* the virtualHost specs that C19 is checked for: no field, each single
        \* field and all fields set (by the name "ref"), with and without overwrite
        \* and with each value of enableVirtualHost; and every list of at most
        \* MaxRefs names out of two as the policy sets, and as the datascripts,
        \* next to a fixed list with a repeated name
        RefLists == UNION {[1..k -> {"ref", "ps2"}] : k \in 0..MaxRefs}
        OverrideInputs ==
            {[Fqdn |-> CrdHost, SSLKeyCertificate |-> s[1], SSLProfile |-> s[2], WAFPolicy |-> s[3],
              ApplicationProfile |-> s[4], ErrorPageProfile |-> s[5], AnalyticsProfile |-> s[6],
              PolicySets |-> <<>>, Overwrite |-> o, Datascripts |-> <<>>, EnableVirtualHost |-> e] :
                 s \in {t \in [1..6 -> {"", "ref"}] : Cardinality({i \in 1..6 : t[i] # ""}) \in {0, 1, 6}},
                 o \in BOOLEAN, e \in {"nil", "true", "false"}}
            \cup {[NoVirtualHost EXCEPT !.Fqdn = CrdHost, !.PolicySets = l, !.Datascripts = <<"ps2", "ps2">>] :
                      l \in RefLists}
            \cup {[NoVirtualHost EXCEPT !.Fqdn = CrdHost, !.PolicySets = <<"ps2", "ps2">>, !.Datascripts = l] :
                      l \in RefLists}
        \* refs names every name of the list once, as the ref of the model, in the
        \* order in which the names first occur in the list
        OnceInListOrder(refs, prefix, names) ==
            /\ {refs[i] : i \in 1..Len(refs)} = {prefix \o names[i] : i \in 1..Len(names)}
            /\ \A i, j \in 1..Len(refs) : i < j =>
                   \E a, b \in 1..Len(names) :
                       /\ a < b
                       /\ refs[i] = prefix \o names[a]
                       /\ refs[j] = prefix \o names[b]
                       /\ \A c \in 1..(b - 1) : names[c] # names[b]
    IN
    /\ \A hr \in HostRuleNames : \A vh \in OverrideInputs :
           LET post == ApplyHostRule(hr, vh, vsModel)
               Is(ref, prefix, name) == ref = IF name = "" THEN "" ELSE prefix \o name
           IN /\ Is(post.SSLKeyCertAviRef, "/api/sslkeyandcertificate?name=", vh.SSLKeyCertificate)
              /\ Is(post.SSLProfileRef, "/api/sslprofile?name=", vh.SSLProfile)
              /\ Is(post.WafPolicyRef, "/api/wafpolicy?name=", vh.WAFPolicy)
              /\ Is(post.AppProfileRef, "/api/applicationprofile?name=", vh.ApplicationProfile)
              /\ Is(post.ErrorPageProfileRef, "/api/errorpageprofile?name=", vh.ErrorPageProfile)
              /\ Is(post.AnalyticsProfileRef, "/api/analyticsprofile?name=", vh.AnalyticsProfile)
              /\ OnceInListOrder(post.HttpPolicySetRefs, "/api/httppolicyset?name=", vh.PolicySets)
              /\ OnceInListOrder(post.VsDatascriptRefs, "/api/vsdatascriptset?name=", vh.Datascripts)
              /\ post.Enabled = vh.EnableVirtualHost
              /\ post.SSLKeyCertRefs = IF vh.SSLKeyCertificate # "" THEN <<>> ELSE vsModel.SSLKeyCertRefs
              /\ post.HttpPolicyRefs = IF vh.Overwrite THEN <<>> ELSE vsModel.HttpPolicyRefs
              /\ post.CRDStatus = [Type |-> "HostRule", Value |-> hr, Status |-> "ACTIVE"]
    /\ MappedWithStatus(StatusAccepted) =>
           \A v \in {vsModel, BuildHostPools(vsModel)} :
               BuildL7HostRule(CrdHost, v)
                   = ApplyHostRule(fqdnToHostrule[CrdHost], hostrules[fqdnToHostrule[CrdHost]].Spec, v)

\* the VS has a TLS key/cert node and an HTTP policy of its own and no
\* override; the Accepted HostRule hr1 that sets every field is mapped to
\* the host: BuildL7HostRule empties both lists and sets the refs, the two
\* policy sets once each
C19_Witness ==
    /\ MappedWithStatus(StatusAccepted)
    /\ hostrules[fqdnToHostrule[CrdHost]].Spec = FullVirtualHost(CrdHost)
    /\ vsModel.SSLKeyCertRefs # <<>>
    /\ vsModel.HttpPolicyRefs # <<>>
    /\ vsModel.CRDStatus = NoCRDStatus
    /\ LET post == BuildL7HostRule(CrdHost, vsModel)
       IN /\ post.SSLKeyCertRefs = <<>>
          /\ post.HttpPolicyRefs = <<>>
          /\ post.AppProfileRef = "/api/applicationprofile?name=app"
          /\ post.HttpPolicySetRefs = <<"/api/httppolicyset?name=ref", "/api/httppolicyset?name=ps2">>
          /\ post.VsDatascriptRefs = <<"/api/vsdatascriptset?name=ref">>
          /\ post.Enabled = "true"
          /\ post.CRDStatus = [Type |-> "HostRule", Value |-> "hr1", Status |-> "ACTIVE"]

\* ---------------------------------------------------------------- C20
\* C20: a HostRule, an HTTPRule or an AviInfraSetting that validation has
\* not Rejected names only objects that the ADC holds under the kind of the
\* field that names them: every ref that is not empty was looked up under
\* its own kind.
C20_EveryRefLookedUp ==
    /\ \A hr \in DOMAIN hostrules :
           LET vh == hostrules[hr].Spec
               Found(key, name) == name = "" \/ checkRefOnController(key, name) = ""
           IN hostrules[hr].Status # StatusRejected =>
                  /\ Found("WafPolicy", vh.WAFPolicy)
                  /\ Found("AppProfile", vh.ApplicationProfile)
                  /\ Found("SslKeyCert", vh.SSLKeyCertificate)
                  /\ Found("SslProfile", vh.SSLProfile)
                  /\ Found("AnalyticsProfile", vh.AnalyticsProfile)
                  /\ Found("ErrorPageProfile", vh.ErrorPageProfile)
                  /\ \A i \in 1..Len(vh.PolicySets) : Found("HttpPolicySet", vh.PolicySets[i])
                  /\ \A i \in 1..Len(vh.Datascripts) : Found("VsDatascript", vh.Datascripts[i])
    /\ ("HTTPRule" \in DOMAIN otherCrds /\ otherCrds["HTTPRule"].Status # StatusRejected) =>
           \A i \in 1..Len(otherCrds["HTTPRule"].Spec) :
               LET path == otherCrds["HTTPRule"].Spec[i]
               IN /\ path.TLS.SSLProfile = "" \/ checkRefOnController("SslProfile", path.TLS.SSLProfile) = ""
                  /\ \A j \in 1..Len(path.HealthMonitors) :
                         path.HealthMonitors[j] = ""
                             \/ checkRefOnController("HealthMonitor", path.HealthMonitors[j]) = ""
    /\ ("AviInfraSetting" \in DOMAIN otherCrds /\ otherCrds["AviInfraSetting"].Status # StatusRejected) =>
           LET infra == otherCrds["AviInfraSetting"].Spec
           IN /\ infra.Network = "" \/ checkRefOnController("Network", infra.Network) = ""
              /\ infra.SeGroup = "" \/ checkRefOnController("ServiceEngineGroup", infra.SeGroup) = ""


C22_RefCheckErrors ==
    LET RefNames == {"ref", "ps2", "app", "hm", "seg", "segl", "l4app", "own", "BADREF", "err"}
        OneStatus(res) ==
            /\ Len(res.writes) = 1
            /\ (res.writes[1].Status = StatusAccepted /\ res.writes[1].Error = "") <=> res.err = ""
            /\ res.err # "" => res.writes[1] = [Status |-> StatusRejected, Error |-> res.err]
    IN /\ \A refKey \in DOMAIN refModelMap : \A name \in RefNames :
              LET result == AviGetCollectionRaw(refModelMap[refKey], name)
                  created == /\ "created_by" \in DOMAIN result.item
                             /\ result.item.created_by.kind = "string"
                             /\ result.item.created_by.v = AKOUser
                  badType == /\ refKey = "AppProfile"
                             /\ "type" \in DOMAIN result.item
                             /\ result.item.type.kind = "string"
                             /\ result.item.type.v # AllowedApplicationProfile
              IN (result.err \/ result.Count = 0 \/ created \/ badType)
                     => checkRefOnController(refKey, name) # ""
       /\ \A hr \in HostRuleNames : \A other \in HostRuleNames : \A vh \in VirtualHosts(other) :
              \A res \in validateHostRuleObj(fqdnToHostrule, hr, vh) : OneStatus(res)
       /\ \A paths \in HTTPRuleSpecs : \A res \in validateHTTPRuleObj(paths) : OneStatus(res)
       /\ \A infra \in AviInfraSettings : \A res \in validateAviInfraSetting(infra) : OneStatus(res)
       /\ \A st \in {<<hostrules[hr].Status, hostrules[hr].Error>> : hr \in DOMAIN hostrules}
                     \cup {<<otherCrds[k].Status, otherCrds[k].Error>> : k \in DOMAIN otherCrds} :
              /\ st[1] \in {StatusAccepted, StatusRejected}
              /\ st[1] = StatusAccepted <=> st[2] = ""

\* hr1 names a WAF policy that this controller created, hr2 an application
\* profile of another type, the HTTPRule an SSL profile whose GET fails and
\* the AviInfraSetting a service engine group with a list of labels: each is
\* Rejected with the error of its ref
C22_Witness ==
    /\ DOMAIN hostrules = HostRuleNames
    /\ hostrules["hr1"].Status = StatusRejected
    /\ hostrules["hr1"].Error
           = "wafpolicy \"own\" Invalid operation, object referred is created by current AKO instance"
    /\ hostrules["hr2"].Status = StatusRejected
    /\ hostrules["hr2"].Error
           = "applicationprofile \"l4app\" found on controller is invalid, must be of type: APPLICATION_PROFILE_TYPE_HTTP"
    /\ DOMAIN otherCrds = {"HTTPRule", "AviInfraSetting"}
    /\ otherCrds["HTTPRule"] = [Spec |-> otherCrds["HTTPRule"].Spec, Status |-> StatusRejected,
                                Error |-> "sslprofile \"err\" not found on controller"]
    /\ otherCrds["AviInfraSetting"].Error = "serviceenginegroup \"segl\" found on controller is invalid"


\* ============================================== HTTP-rule overlay (pools)
\* BuildPoolHTTPRule of crd_translator.go on the pools of the child VS of
\* CrdHost.  A target path is 0 for "/", which is a prefix of the path of
\* every pool, or the path of a pool; the HTTPRules are in the namespace of
\* the ingress.
LB_ALGORITHM_ROUND_ROBIN == "LB_ALGORITHM_ROUND_ROBIN"
LB_ALGORITHM_CONSISTENT_HASH == "LB_ALGORITHM_CONSISTENT_HASH"
LB_ALGORITHM_CONSISTENT_HASH_SOURCE_IP_ADDRESS == "LB_ALGORITHM_CONSISTENT_HASH_SOURCE_IP_ADDRESS"
LB_ALGORITHM_CONSISTENT_HASH_CUSTOM_HEADER == "LB_ALGORITHM_CONSISTENT_HASH_CUSTOM_HEADER"
TypeTLSReencrypt == "reencrypt"
DefaultPoolSSLProfile == "System-Standard"

\* the fields of a pool that an HTTPRule sets, as a new pool node has them
\* (a PkiProfile with the empty name is the nil pointer)
NoPoolOverlay ==
    [SniEnabled |-> FALSE, SslProfileRef |-> "", PkiProfile |-> [Name |-> <<>>, CACert |-> ""],
     HealthMonitors |-> <<>>, LbAlgorithm |-> "", LbAlgorithmHash |-> "",
     LbAlgoHostHeader |-> "", CRDStatus |-> NoCRDStatus]

\* the pool name matches the regex of the layout: the pool is one of the
\* host and the ingress, and the target path is a prefix of its path
PoolNameMatches(poolName, host, target, ingName) ==
    /\ poolName[1] = ingName
    /\ poolName[2] = host
    /\ (target = 0 \/ poolName[3] = target)

\* the body of the pool loop for a pool whose name matches: the pool with
\* the overlay of the path of the HTTPRule
OverlayPool(pool, httpRulePath, rule) ==
    LET tls == httpRulePath.TLS.Type # ""
        refs == [i \in 1..Len(httpRulePath.HealthMonitors) |->
                    ApiRef("healthmonitor", httpRulePath.HealthMonitors[i])]
        added == SelectSeq([i \in 1..Len(refs) |-> i],
                           LAMBDA i : /\ ~HasElem(pool.HealthMonitors, refs[i])
                                      /\ \A j \in 1..(i - 1) : refs[j] # refs[i])
        algorithm == httpRulePath.LoadBalancerPolicy.Algorithm
        hash == IF algorithm = LB_ALGORITHM_CONSISTENT_HASH
                THEN httpRulePath.LoadBalancerPolicy.Hash
                ELSE pool.LbAlgorithmHash
    IN [pool EXCEPT
           !.SniEnabled = IF tls THEN TRUE ELSE @,
           !.SslProfileRef =
               IF ~tls THEN @
               ELSE IF httpRulePath.TLS.SSLProfile # ""
               THEN ApiRef("sslprofile", httpRulePath.TLS.SSLProfile)
               ELSE ApiRef("sslprofile", DefaultPoolSSLProfile),
           !.PkiProfile =
               IF ~tls THEN @
               ELSE IF httpRulePath.TLS.DestinationCA # ""
               THEN [Name |-> <<"pki", pool.Name>>, CACert |-> httpRulePath.TLS.DestinationCA]
               ELSE NoPoolOverlay.PkiProfile,
           !.HealthMonitors = @ \o [k \in 1..Len(added) |-> refs[added[k]]],
           !.LbAlgorithm = algorithm,
           !.LbAlgorithmHash = hash,
           !.LbAlgoHostHeader =
               IF /\ algorithm = LB_ALGORITHM_CONSISTENT_HASH
                  /\ hash = LB_ALGORITHM_CONSISTENT_HASH_CUSTOM_HEADER
                  /\ httpRulePath.LoadBalancerPolicy.HostHeader # ""
               THEN httpRulePath.LoadBalancerPolicy.HostHeader
               ELSE @,
           !.CRDStatus = [Type |-> "HTTPRule", Value |-> rule, Status |-> "ACTIVE"]]

\* httpruleNameObjMap[rule+target]: the path of the HTTPRule for the target,
\* or no path when the HTTPRule is not found, is Rejected or has no path for
\* the target (of two paths with one target the later one is kept)
HTTPRulePathFor(rule, target) ==
    IF rule \in DOMAIN httprules /\ httprules[rule].Status # StatusRejected
    THEN LET paths == httprules[rule].Spec
             at == {i \in 1..Len(paths) : paths[i].Target = target}
         IN IF at = {} THEN <<>>
            ELSE <<paths[CHOOSE i \in at : \A j \in at : j <= i]>>
    ELSE <<>>

\* the loop over pathRules in the order in which the map is ranged over
RECURSIVE BuildPoolHTTPRuleLoop(_, _, _, _, _)
BuildPoolHTTPRuleLoop(vsNode, host, ingName, order, i) ==
    IF i > Len(order) THEN vsNode
    ELSE LET rule == pathRules[host][order[i]]
             found == HTTPRulePathFor(rule, order[i])
             Overlaid(httpRulePath) ==
                 [vsNode EXCEPT !.PoolRefs =
                     [k \in 1..Len(@) |->
                         IF PoolNameMatches(@[k].Name, host, order[i], ingName)
                         THEN OverlayPool(@[k], httpRulePath, rule)
                         ELSE @[k]]]
         IN BuildPoolHTTPRuleLoop(
                IF found = <<>> THEN vsNode
                ELSE IF found[1].TLS.Type # "" /\ found[1].TLS.Type # TypeTLSReencrypt THEN vsNode
                ELSE Overlaid(found[1]),
                host, ingName, order, i + 1)

\* BuildPoolHTTPRule for the pools of vsNode; order enumerates the target
\* paths mapped for the host (the two regular expressions, for an SNI child
\* and for the shared VS, are both PoolNameMatches here)
BuildPoolHTTPRule(host, ingName, vsNode, order) ==
    IF host \notin DOMAIN pathRules THEN vsNode
    ELSE BuildPoolHTTPRuleLoop(vsNode, host, ingName, order, 1)

\* ------------------------------------------------- HTTP-rule inputs
HTTPRuleNames == {"rr1", "rr2"}

\* the paths an HTTPRule can have: rr1 has the target "/", rr2 the target
\* of path 1 or of a path that no pool has; a hostHeader is given exactly
\* with CONSISTENT_HASH_CUSTOM_HEADER
HTTPRulePathsOf(rule) ==
    LET LB(a, h, hh) == [Algorithm |-> a, Hash |-> h, HostHeader |-> hh]
        Policies == {LB(LB_ALGORITHM_ROUND_ROBIN, "", ""),
                     LB(LB_ALGORITHM_CONSISTENT_HASH, LB_ALGORITHM_CONSISTENT_HASH_SOURCE_IP_ADDRESS, ""),
                     LB(LB_ALGORITHM_CONSISTENT_HASH, LB_ALGORITHM_CONSISTENT_HASH_CUSTOM_HEADER, "hdr")}
        NoTLS == [Type |-> "", SSLProfile |-> "", DestinationCA |-> ""]
        Reencrypt(p, ca) == [Type |-> TypeTLSReencrypt, SSLProfile |-> p, DestinationCA |-> ca]
        P(t, tls, hms, lb) == [Target |-> t, TLS |-> tls, HealthMonitors |-> hms, LoadBalancerPolicy |-> lb]
    IN IF rule = "rr1"
       THEN {<<P(0, NoTLS, <<>>, lb)>> : lb \in Policies}
            \cup {<<P(0, Reencrypt("", ""), <<"hm", "hm">>, LB(LB_ALGORITHM_ROUND_ROBIN, "", ""))>>,
                  <<P(0, NoTLS, <<"BADREF">>, LB(LB_ALGORITHM_ROUND_ROBIN, "", ""))>>}
       ELSE {<<P(1, NoTLS, <<"hm">>, lb)>> : lb \in Policies}
            \cup {<<P(1, Reencrypt("ref", "ca"), <<"ref">>, LB(LB_ALGORITHM_ROUND_ROBIN, "", ""))>>,
                  <<P(1, [Type |-> "edge", SSLProfile |-> "", DestinationCA |-> ""], <<>>,
                      LB(LB_ALGORITHM_ROUND_ROBIN, "", ""))>>,
                  <<P(MaxPaths, NoTLS, <<>>, LB(LB_ALGORITHM_ROUND_ROBIN, "", ""))>>}

\* ------------------------------------------------ HTTP-rule actions
notHTTPRuleVars == <<hostrules, fqdnToHostrule, otherCrds, graphVars, ckNode, restVars>>

\* an HTTPRule of CrdHost is added or updated: it is validated, and the
\* target paths of an accepted HTTPRule are mapped to it in place of those
\* it had
HTTPRuleEvent(rule, paths) ==
    \E res \in validateHTTPRuleObj(paths) :
       /\ httprules' = Put(httprules, rule, [Spec |-> paths] @@ res.writes[Len(res.writes)])
       /\ pathRules' =
              IF res.err # "" THEN pathRules
              ELSE LET old == IF CrdHost \in DOMAIN pathRules THEN pathRules[CrdHost] ELSE EmptyMap
                       targets == {paths[i].Target : i \in 1..Len(paths)}
                   IN Put(pathRules, CrdHost,
                          [t \in {t \in DOMAIN old : old[t] # rule} \cup targets |->
                              IF t \in targets THEN rule ELSE old[t]])
       /\ UNCHANGED <<vsModel, notHTTPRuleVars>>

\* an HTTPRule is deleted
HTTPRuleRemove(rule) ==
    /\ rule \in DOMAIN httprules
    /\ httprules' = Del(httprules, rule)
    /\ pathRules' = [h \in DOMAIN pathRules |->
                        [t \in {t \in DOMAIN pathRules[h] : pathRules[h][t] # rule} |-> pathRules[h][t]]]
    /\ UNCHANGED <<vsModel, notHTTPRuleVars>>

\* the pools of the child VS as BuildPolicyPGPoolsForEVH has them before it
\* calls BuildPoolHTTPRule: a pool node that was built anew has no overlay
NewPools(vsNode) ==
    [BuildHostPools(vsNode) EXCEPT !.PoolRefs =
        [k \in 1..Len(@) |-> [f \in DOMAIN NoPoolOverlay |-> NoPoolOverlay[f]] @@ @[k]]]

\* the ingress of CrdHost is processed again: BuildPolicyPGPoolsForEVH builds
\* the pools and calls BuildPoolHTTPRule (once, the ingress has one path)
BuildPools ==
    /\ \E order \in SeqsOf(IF CrdHost \in DOMAIN pathRules THEN DOMAIN pathRules[CrdHost] ELSE {}) :
           vsModel' = BuildPoolHTTPRule(CrdHost, "A", NewPools(vsModel), order)
    /\ UNCHANGED <<httpRuleVars, notHTTPRuleVars>>

InitHTTPRule ==
    /\ shardSize = 1
    /\ graphs = EmptyMap
    /\ lister = EmptyMap
    /\ stored = EmptyMap
    /\ resources = EmptyMap
    /\ pc = [w \in Ings |-> "idle"]
    /\ job = [w \in Ings |-> IdleJob]
    /\ priv = [w \in Ings |-> NilGraph]
    /\ lock = [w \in Ings |-> FALSE]
    /\ mut = NoMutation
    /\ hostrules = EmptyMap
    /\ fqdnToHostrule = EmptyMap
    /\ otherCrds = EmptyMap
    /\ vsModel \in {NewPools(v) : v \in VsModels}
    /\ httprules = EmptyMap
    /\ pathRules = EmptyMap
    /\ ckNode = NilGraph
    /\ vsCache = EmptyMap
    /\ vsvipCache = EmptyMap
    /\ lastCall = EmptyMap

NextHTTPRule ==
    \/ \E rule \in HTTPRuleNames : \E paths \in HTTPRulePathsOf(rule) : HTTPRuleEvent(rule, paths)
    \/ \E rule \in HTTPRuleNames : HTTPRuleRemove(rule)
    \/ BuildPools

SpecHTTPRule == InitHTTPRule /\ [][NextHTTPRule]_vars


\* ---------------------------------------------------------------- C23
\* C23: after BuildPoolHTTPRule every pool of the child VS has a
\* LbAlgoHostHeader that is not empty only if its LbAlgorithm is
\* LB_ALGORITHM_CONSISTENT_HASH and its LbAlgorithmHash is
\* LB_ALGORITHM_CONSISTENT_HASH_CUSTOM_HEADER, and a pool with that hash has
\* a LbAlgoHostHeader that is not empty.
C23_HostHeaderOnlyWithCustomHash ==
    \A k \in 1..Len(vsModel.PoolRefs) :
        LET pool == vsModel.PoolRefs[k]
        IN /\ pool.LbAlgoHostHeader # "" =>
                  /\ pool.LbAlgorithm = LB_ALGORITHM_CONSISTENT_HASH
                  /\ pool.LbAlgorithmHash = LB_ALGORITHM_CONSISTENT_HASH_CUSTOM_HEADER
           /\ pool.LbAlgorithmHash = LB_ALGORITHM_CONSISTENT_HASH_CUSTOM_HEADER =>
                  pool.LbAlgoHostHeader # ""


\* ------------------------------------------------ checksum of a VS node
\* A string is the sequence of its bytes.  The checksums are uint32 values in
\* the code; the model computes them with 16 bits, sums wrap around in the
\* same way.
CksumMod == 65536

HashMod == 65521

\* utils.Hash: a hash of the bytes of the string, taken in their order
RECURSIVE HashFrom(_, _, _)
HashFrom(s, i, h) ==
    IF i > Len(s) THEN h ELSE HashFrom(s, i + 1, (h * 31 + s[i]) % HashMod)

Hash(s) == HashFrom(s, 1, 7)

\* utils.Stringify of a list of strings: the JSON of the elements, in the
\* order of the list
RECURSIVE StringifyFrom(_, _)
StringifyFrom(list, i) ==
    IF i > Len(list) THEN <<93>>
    ELSE (IF i > 1 THEN <<44>> ELSE <<>>) \o <<34>> \o list[i] \o <<34>> \o StringifyFrom(list, i + 1)

Stringify(list) == <<91>> \o StringifyFrom(list, 1)

\* utils.Stringify of the list of ports: the JSON of every port, in the order
\* of the list
RECURSIVE StringifyPortsFrom(_, _)
StringifyPortsFrom(portproto, i) ==
    IF i > Len(portproto) THEN <<93>>
    ELSE (IF i > 1 THEN <<44>> ELSE <<>>) \o <<123, portproto[i].Port, 58>> \o portproto[i].Name
             \o <<125>> \o StringifyPortsFrom(portproto, i + 1)

StringifyPorts(portproto) == <<91>> \o StringifyPortsFrom(portproto, 1)

\* a < b for two strings
StrLess(a, b) ==
    \E k \in 1..(Len(a) + 1) :
        /\ k <= Len(b)
        /\ \A j \in 1..(k - 1) : a[j] = b[j]
        /\ k <= Len(a) => a[k] < b[k]

\* sort.Slice by Name of a list shorter than 12: an insertion sort, an element
\* moves left while its name is less than the name on its left
RECURSIVE SortByName(_, _)
SortByName(portproto, n) ==
    IF n = 0 THEN <<>>
    ELSE LET Insert(sorted, e) ==
                 LET k == Cardinality({j \in 1..Len(sorted) : ~StrLess(e.Name, sorted[j].Name)})
                 IN SubSeq(sorted, 1, k) \o <<e>> \o SubSeq(sorted, k + 1, Len(sorted))
         IN Insert(SortByName(portproto, n - 1), portproto[n])

\* the sum of GetCheckSum() of the nodes of a list
RECURSIVE SumCheckSum(_, _)
SumCheckSum(nodes, n) ==
    IF n = 0 THEN 0 ELSE (SumCheckSum(nodes, n - 1) + nodes[n].CloudConfigCksum) % CksumMod

\* a sum of uint32 values
RECURSIVE Sum32(_, _)
Sum32(values, n) == IF n = 0 THEN 0 ELSE (Sum32(values, n - 1) + values[n]) % CksumMod

\* lib.GetClusterLabelChecksum
ClusterLabelChecksum == 4711

\* AviEvhVsNode.CalculateCheckSum: the ports are sorted in place
CalculateCheckSum(v) ==
    LET portproto == SortByName(v.PortProto, Len(v.PortProto))
        dsChecksum == SumCheckSum(v.HTTPDSrefs, Len(v.HTTPDSrefs))
        httppolChecksum == SumCheckSum(v.HttpPolicyRefs, Len(v.HttpPolicyRefs))
        evhChecksum == SumCheckSum(v.EvhNodes, Len(v.EvhNodes))
        sslkeyChecksum == SumCheckSum(v.CACertRefs \o v.SSLKeyCertRefs, Len(v.CACertRefs) + Len(v.SSLKeyCertRefs))
        vsvipChecksum == SumCheckSum(v.VSVIPRefs, Len(v.VSVIPRefs))
        vsRefs == v.WafPolicyRef \o v.AppProfileRef \o Stringify(v.HttpPolicySetRefs)
                      \o v.AnalyticsProfileRef \o v.ErrorPageProfileRef \o v.SSLProfileRef
                      \o (IF Len(v.VsDatascriptRefs) > 0 THEN Stringify(v.VsDatascriptRefs) ELSE <<>>)
        checksum == <<dsChecksum, httppolChecksum, evhChecksum,
                      Hash(v.ApplicationProfile), Hash(v.NetworkProfile),
                      Hash(StringifyPorts(portproto)), Hash(v.ServiceEngineGroup),
                      sslkeyChecksum, vsvipChecksum, Hash(vsRefs), Hash(v.EvhHostName),
                      IF v.Enabled # "nil" THEN Hash(IF v.Enabled = "true" THEN <<116>> ELSE <<102>>) ELSE 0,
                      ClusterLabelChecksum,
                      IF v.EnableRhi # "nil" THEN Hash(IF v.EnableRhi = "true" THEN <<116>> ELSE <<102>>) ELSE 0>>
    IN [v EXCEPT !.PortProto = portproto, !.CloudConfigCksum = Sum32(checksum, Len(checksum))]

\* the lists of owned nodes and the lists of strings of a VS node
OwnedLists == {"HTTPDSrefs", "HttpPolicyRefs", "EvhNodes", "CACertRefs", "SSLKeyCertRefs", "VSVIPRefs"}

StringLists == {"HttpPolicySetRefs", "VsDatascriptRefs"}

MaxCkItems == 3      \* the elements of all the collections of the node together

\* an owned node with its checksum; a ref; a port of the listener
OwnedNodes == {[Name |-> <<110, k>>, CloudConfigCksum |-> 1000 * k + 17] : k \in 1..2}

PolicySetRefs == {<<112, 49>>, <<112, 50>>}

Ports == {[Name |-> <<>>, Port |-> 80], [Name |-> <<>>, Port |-> 443], [Name |-> <<97>>, Port |-> 8080]}

CkItems(v) ==
    Len(v.PortProto) + Len(v.HttpPolicySetRefs) + Len(v.VsDatascriptRefs)
        + Len(v.HTTPDSrefs) + Len(v.HttpPolicyRefs) + Len(v.EvhNodes) + Len(v.CACertRefs)
        + Len(v.SSLKeyCertRefs) + Len(v.VSVIPRefs)

\* a parent VS node with no ports, no refs and no owned nodes
NewCkNode(enabled) ==
    [Name |-> "Shared-L7-EVH-0", PortProto |-> <<>>,
     HTTPDSrefs |-> <<>>, HttpPolicyRefs |-> <<>>, EvhNodes |-> <<>>, CACertRefs |-> <<>>,
     SSLKeyCertRefs |-> <<>>, VSVIPRefs |-> <<>>, HttpPolicySetRefs |-> <<>>, VsDatascriptRefs |-> <<>>,
     WafPolicyRef |-> <<119>>, AppProfileRef |-> <<>>, AnalyticsProfileRef |-> <<>>,
     ErrorPageProfileRef |-> <<>>, SSLProfileRef |-> <<115>>,
     ApplicationProfile |-> <<72, 84, 84, 80>>, NetworkProfile |-> <<84, 67, 80>>,
     ServiceEngineGroup |-> <<>>, EvhHostName |-> <<>>,
     Enabled |-> enabled, EnableRhi |-> "nil", CloudConfigCksum |-> 0]

notCkVars == <<shardSize, graphs, lister, stored, resources, workerVars, crdVars, httpRuleVars, restVars>>

\* a port is added to the listener
AddPortProto(p) ==
    /\ CkItems(ckNode) < MaxCkItems
    /\ ~HasElem(ckNode.PortProto, p)
    /\ ckNode' = [ckNode EXCEPT !.PortProto = Append(@, p)]
    /\ UNCHANGED notCkVars

\* a node is added to one of the lists of owned nodes
AddOwnedNode(list, node) ==
    /\ CkItems(ckNode) < MaxCkItems
    /\ ~HasElem(ckNode[list], node)
    /\ ckNode' = [ckNode EXCEPT ![list] = Append(@, node)]
    /\ UNCHANGED notCkVars

\* SetHttpPolicySetRefs, SetVsDatascriptRefs: the list with one more ref
AddRef(list, ref) ==
    /\ CkItems(ckNode) < MaxCkItems
    /\ ~HasElem(ckNode[list], ref)
    /\ ckNode' = [ckNode EXCEPT ![list] = Append(@, ref)]
    /\ UNCHANGED notCkVars

CalculateCheckSumCall ==
    /\ ckNode' = CalculateCheckSum(ckNode)
    /\ UNCHANGED notCkVars

InitChecksum ==
    /\ ckNode \in {NewCkNode(e) : e \in {"nil", "true", "false"}}
    /\ shardSize = 1
    /\ graphs = EmptyMap
    /\ lister = EmptyMap
    /\ stored = EmptyMap
    /\ resources = EmptyMap
    /\ pc = [w \in Ings |-> "idle"]
    /\ job = [w \in Ings |-> IdleJob]
    /\ priv = [w \in Ings |-> NilGraph]
    /\ lock = [w \in Ings |-> FALSE]
    /\ mut = NoMutation
    /\ hostrules = EmptyMap
    /\ fqdnToHostrule = EmptyMap
    /\ otherCrds = EmptyMap
    /\ vsModel = NilGraph
    /\ httprules = EmptyMap
    /\ pathRules = EmptyMap
    /\ vsCache = EmptyMap
    /\ vsvipCache = EmptyMap
    /\ lastCall = EmptyMap

NextChecksum ==
    \/ \E p \in Ports : AddPortProto(p)
    \/ \E list \in OwnedLists, node \in OwnedNodes : AddOwnedNode(list, node)
    \/ \E list \in StringLists, ref \in PolicySetRefs : AddRef(list, ref)
    \/ CalculateCheckSumCall

SpecChecksum == InitChecksum /\ [][NextChecksum]_vars

\* the lists that a permutation of the positions makes of a list
Reorderings(s) == {[i \in 1..Len(s) |-> s[p[i]]] : p \in SeqsOf(1..Len(s))}

\* C24: the checksum of a VS node is the same for every order of its child
\* VS list, of its HTTP policy nodes, data-script nodes, TLS and CA
\* certificate nodes and VSVIP nodes, of its list of ports and of its list
\* of HTTP policy-set refs
C24_ChecksumOrderIndependent ==
    \A list \in OwnedLists \cup {"PortProto", "HttpPolicySetRefs"} :
        \A s \in Reorderings(ckNode[list]) :
            CalculateCheckSum([ckNode EXCEPT ![list] = s]).CloudConfigCksum
                = CalculateCheckSum(ckNode).CloudConfigCksum


\* ------------------------------------- checksum of a parent VS of a graph
\* the multiset of the values of a list: what a sum of checksums depends on
BagOfList(s) == [v \in Range(s) |-> Cardinality({i \in 1..Len(s) : s[i] = v})]

\* AviHttpPolicySetNode.CalculateCheckSum: the hosts of the redirect rules
\* are sorted before they are hashed
HttpPolicyCheckSum(policy) ==
    [Name |-> policy.Name,
     RedirectPorts |-> [i \in 1..Len(policy.RedirectPorts) |-> Range(policy.RedirectPorts[i].Hosts)]]

\* AviVSVIPNode.CalculateCheckSum: the FQDNs are sorted before they are hashed
VsvipCheckSum(FQDNs) == Range(FQDNs)

\* AviEvhVsNode.CalculateCheckSum of the parent VS of a graph: the summands
\* that the events of the model change
ParentCheckSum(v) ==
    [httppolChecksum |-> BagOfList([i \in 1..Len(v.HttpPolicyRefs) |-> HttpPolicyCheckSum(v.HttpPolicyRefs[i])]),
     evhChecksum |-> BagOfList([i \in 1..Len(v.EvhNodes) |-> EvhCheckSum(v.EvhNodes[i])]),
     sslkeyChecksum |-> BagOfList([i \in 1..Len(v.CACertRefs) |-> LeafCheckSum(v.CACertRefs[i])]
                                    \o [i \in 1..Len(v.SSLKeyCertRefs) |-> LeafCheckSum(v.SSLKeyCertRefs[i])]),
     vsvipChecksum |-> VsvipCheckSum(v.FQDNs)]

\* the checksums of the parent VSes of the graphs of a state
ParentCheckSums(st) == [m \in DOMAIN st.graphs |-> ParentCheckSum(st.graphs[m])]

\* C25: an event of ingress A and an event of ingress B, processed in the one
\* order and in the other order after the same events, leave graphs whose
\* parent VSes have the same checksum
C25_EventOrderIndependent ==
    \A cfgA \in IngressCfgs("A"), cfgB \in IngressCfgs("B") :
        \A oA \in HostOrders("A", cfgA), oB \in HostOrders("B", cfgB) :
            LET DoA(st) == ProcessIngress(st, "A", Parsed("A", cfgA, oA), oA)
                DoB(st) == ProcessIngress(st, "B", Parsed("B", cfgB, oB), oB)
            IN ParentCheckSums(DoB(DoA(State))) = ParentCheckSums(DoA(DoB(State)))


\* ------------------------------------------------ REST layer and its cache
\* The keys of the caches are the names of the objects (one tenant).  A VS
\* cache object that another object's cache update makes holds the name only.
RestPut == "PUT"

RestPost == "POST"

VSVIP_NOTFOUND == "VsVip object not found"

NoRestOp == [Path |-> "", Method |-> ""]

\* avicache.AviVsCache with the name only
NewVsCache(name) ==
    [Name |-> name, Uuid |-> "", CloudConfigCksum |-> "", ParentVSRef |-> "",
     SNIChildCollection |-> <<>>, VSVipKeyCollection |-> <<>>,
     LastModified |-> "", InvalidData |-> FALSE]

\* AviCache.AviCacheAddVS: the object of the key, made when there is none
AviCacheAddVS(cache, k) == IF k \in DOMAIN cache THEN cache ELSE Put(cache, k, NewVsCache(k))

\* AviCache.AviCacheGetKeyByUuid: the key of the object with the uuid, "" when
\* there is none (no two objects of the model hold the same uuid)
AviCacheGetKeyByUuid(cache, uuid) ==
    LET keys == {k \in DOMAIN cache : cache[k].Uuid = uuid}
    IN IF keys = {} THEN "" ELSE CHOOSE k \in keys : TRUE

\* AviVsCache.AddToSNIChildCollection, AddToVSVipKeyCollection: the element is
\* appended unless the collection holds it
AddToCollection(collection, e) == IF HasElem(collection, e) THEN collection ELSE Append(collection, e)

\* a parent ref <<uuid, name>> stands for ".../api/virtualservice/<uuid>#<name>"
ExtractUuid(ref) == ref[1]

ExtractVsName(ref) == ref[2]

\* RestRespArrToObjByType: the elements of the response that are of the type
RestRespArrToObjByType(rest_op, objType) ==
    SelectSeq(rest_op.Response.elems, LAMBDA resp : resp["type"] = objType)

\* lastModifiedStr: the _last_modified of the element when it is a string, ""
\* when the element has none or one that is no string
LastModifiedStr(resp) ==
    IF "_last_modified" \in DOMAIN resp /\ resp["_last_modified"].kind = "string"
    THEN resp["_last_modified"].v
    ELSE ""

Returned(cache, err, panic) == [cache |-> cache, err |-> err, panic |-> panic]

\* a variant in which a cache object that was marked invalid stays invalid
AviVsCacheAddElem_KeepInvalid(cache, resp) ==
    IF "name" \notin DOMAIN resp THEN Returned(cache, "Name not present in response", FALSE)
    ELSE IF "uuid" \notin DOMAIN resp THEN Returned(cache, "Uuid not present in response", FALSE)
    ELSE IF "cloud_config_cksum" \notin DOMAIN resp THEN Returned(cache, "", TRUE)
    ELSE LET name == resp["name"]
             uuid == resp["uuid"]
             found_parent == "vh_parent_vs_ref" \in DOMAIN resp
             vhParentKey == IF found_parent
                            THEN AviCacheGetKeyByUuid(cache, ExtractUuid(resp["vh_parent_vs_ref"]))
                            ELSE ""
             WithChild(c, parentKey) ==
                 [c EXCEPT ![parentKey].SNIChildCollection = AddToCollection(@, uuid)]
             Cached(c, parentKey) ==
                 IF name \in DOMAIN c
                 THEN [c EXCEPT ![name].Uuid = uuid,
                                ![name].CloudConfigCksum = resp["cloud_config_cksum"],
                                ![name].ParentVSRef = IF parentKey # "" THEN parentKey ELSE @,
                                ![name].LastModified = LastModifiedStr(resp),
                                ![name].InvalidData = (@ \/ LastModifiedStr(resp) = "")]
                 ELSE Put(c, name, [NewVsCache(name) EXCEPT !.Uuid = uuid,
                                                            !.CloudConfigCksum = resp["cloud_config_cksum"],
                                                            !.LastModified = LastModifiedStr(resp),
                                                            !.InvalidData = (LastModifiedStr(resp) = "")])
             ParentCached(c, parentKey) ==
                 IF ~found_parent THEN c
                 ELSE IF parentKey # "" THEN WithChild(c, parentKey)
                 ELSE WithChild(AviCacheAddVS(c, ExtractVsName(resp["vh_parent_vs_ref"])),
                                ExtractVsName(resp["vh_parent_vs_ref"]))
         IN Returned(Cached(ParentCached(cache, vhParentKey), vhParentKey), "", FALSE)

\* the body of the loop of AviVsCacheAdd for one element of the response
AviVsCacheAddElem(cache, resp) ==
    IF "name" \notin DOMAIN resp THEN Returned(cache, "Name not present in response", FALSE)
    ELSE IF "uuid" \notin DOMAIN resp THEN Returned(cache, "Uuid not present in response", FALSE)
    ELSE IF "cloud_config_cksum" \notin DOMAIN resp THEN Returned(cache, "", TRUE)
    ELSE LET name == resp["name"]
             uuid == resp["uuid"]
             found_parent == "vh_parent_vs_ref" \in DOMAIN resp
             vhParentKey == IF found_parent
                            THEN AviCacheGetKeyByUuid(cache, ExtractUuid(resp["vh_parent_vs_ref"]))
                            ELSE ""
             WithChild(c, parentKey) ==
                 [c EXCEPT ![parentKey].SNIChildCollection = AddToCollection(@, uuid)]
             Cached(c, parentKey) ==
                 IF name \in DOMAIN c
                 THEN [c EXCEPT ![name].Uuid = uuid,
                                ![name].CloudConfigCksum = resp["cloud_config_cksum"],
                                ![name].ParentVSRef = IF parentKey # "" THEN parentKey ELSE @,
                                ![name].LastModified = LastModifiedStr(resp),
                                ![name].InvalidData = (LastModifiedStr(resp) = "")]
                 ELSE Put(c, name, [NewVsCache(name) EXCEPT !.Uuid = uuid,
                                                            !.CloudConfigCksum = resp["cloud_config_cksum"],
                                                            !.LastModified = LastModifiedStr(resp),
                                                            !.InvalidData = (LastModifiedStr(resp) = "")])
             ParentCached(c, parentKey) ==
                 IF ~found_parent THEN c
                 ELSE IF parentKey # "" THEN WithChild(c, parentKey)
                 ELSE WithChild(AviCacheAddVS(c, ExtractVsName(resp["vh_parent_vs_ref"])),
                                ExtractVsName(resp["vh_parent_vs_ref"]))
         IN Returned(Cached(ParentCached(cache, vhParentKey), vhParentKey), "", FALSE)

RECURSIVE AviVsCacheAddLoop(_, _, _)
AviVsCacheAddLoop(cache, resp_elems, i) ==
    IF i > Len(resp_elems) THEN Returned(cache, "", FALSE)
    ELSE LET Rest(r) == IF r.err # "" \/ r.panic THEN r ELSE AviVsCacheAddLoop(r.cache, resp_elems, i + 1)
         IN Rest(AviVsCacheAddElem(cache, resp_elems[i]))

\* a variant that does not look at the error of the operation
AviVsCacheAdd_IgnoreErr(cache, rest_op) ==
    IF RestRespArrToObjByType(rest_op, "virtualservice") = <<>> THEN Returned(cache, "vs not found", FALSE)
    ELSE AviVsCacheAddLoop(cache, RestRespArrToObjByType(rest_op, "virtualservice"), 1)

\* AviVsCacheAdd: the VS cache it leaves, the error it returns, whether it panics
AviVsCacheAdd(cache, rest_op) ==
    IF rest_op.Err # "" \/ rest_op.Response.nil THEN Returned(cache, "Errored rest_op", FALSE)
    ELSE IF RestRespArrToObjByType(rest_op, "virtualservice") = <<>> THEN Returned(cache, "vs not found", FALSE)
    ELSE AviVsCacheAddLoop(cache, RestRespArrToObjByType(rest_op, "virtualservice"), 1)

\* findSNIRefAndRemove: the first uuid whose VS has the name of the child leaves
findSNIRefAndRemove(cache, snichildkey, parentKey) ==
    LET coll == cache[parentKey].SNIChildCollection
        hits == {i \in 1..Len(coll) : AviCacheGetKeyByUuid(cache, coll[i]) = snichildkey}
    IN IF hits = {} THEN cache
       ELSE [cache EXCEPT ![parentKey].SNIChildCollection =
                              RemoveAt(coll, CHOOSE i \in hits : \A j \in hits : i <= j)]

\* AviVsCacheDel: the two caches it leaves
AviVsCacheDel(cache, vipCache, vsKey) ==
    IF vsKey \notin DOMAIN cache THEN [vs |-> cache, vsvip |-> vipCache]
    ELSE LET parent == cache[vsKey].ParentVSRef
             c1 == IF parent \in DOMAIN cache THEN findSNIRefAndRemove(cache, vsKey, parent) ELSE cache
         IN [vs |-> Del(c1, vsKey),
             vsvip |-> IF Len(cache[vsKey].VSVipKeyCollection) > 0
                       THEN Del(vipCache, cache[vsKey].VSVipKeyCollection[1])
                       ELSE vipCache]

\* AviVsSniBuild: the operation for a child VS
AviVsSniBuild(rest_method, cache_obj) ==
    IF rest_method = RestPut
    THEN [Path |-> "/api/virtualservice/" \o cache_obj.Uuid, Method |-> rest_method]
    ELSE [Path |-> "/api/macro", Method |-> rest_method]

\* AviVsBuild: the operation for a VS
AviVsBuild(IsSNIChild, rest_method, cache_obj) ==
    IF IsSNIChild THEN AviVsSniBuild(rest_method, cache_obj)
    ELSE IF rest_method = RestPut /\ cache_obj.Uuid # ""
         THEN [Path |-> "/api/virtualservice/" \o cache_obj.Uuid, Method |-> rest_method]
         ELSE [Path |-> "/api/macro", Method |-> RestPost]

\* AviVsVipBuild: the VSVIP cache it leaves, the operation and the error it
\* returns.  passed: the caller passes the cache object; getErr: the error of
\* the GET of the VSVIP on the controller
AviVsVipBuild(vipCache, name, passed, getErr) ==
    IF passed
    THEN IF getErr # "" THEN [vsvip |-> vipCache, rest_op |-> NoRestOp, err |-> getErr]
         ELSE [vsvip |-> vipCache, err |-> "",
               rest_op |-> [Path |-> "/api/vsvip/" \o vipCache[name].Uuid, Method |-> RestPut]]
    ELSE IF name \in DOMAIN vipCache
         THEN IF getErr = VSVIP_NOTFOUND
              THEN [vsvip |-> Del(vipCache, name), err |-> "",
                    rest_op |-> [Path |-> "/api/macro", Method |-> RestPost]]
              ELSE IF getErr # "" THEN [vsvip |-> vipCache, rest_op |-> NoRestOp, err |-> getErr]
              ELSE [vsvip |-> vipCache, err |-> "",
                    rest_op |-> [Path |-> "/api/vsvip/" \o vipCache[name].Uuid, Method |-> RestPut]]
         ELSE [vsvip |-> vipCache, err |-> "", rest_op |-> [Path |-> "/api/macro", Method |-> RestPost]]

\* the body of the loop of AviVsVipCacheAdd for one element of the response
AviVsVipCacheAddElem(caches, resp, vsKey) ==
    IF "name" \notin DOMAIN resp \/ "uuid" \notin DOMAIN resp THEN caches
    ELSE [vsvip |-> Put(caches.vsvip, resp["name"],
                        [Name |-> resp["name"], Uuid |-> resp["uuid"],
                         LastModified |-> LastModifiedStr(resp),
                         InvalidData |-> (LastModifiedStr(resp) = "")]),
          vs |-> [AviCacheAddVS(caches.vs, vsKey) EXCEPT
                     ![vsKey].VSVipKeyCollection = AddToCollection(@, resp["name"])]]

RECURSIVE AviVsVipCacheAddLoop(_, _, _, _)
AviVsVipCacheAddLoop(caches, resp_elems, vsKey, i) ==
    IF i > Len(resp_elems) THEN caches
    ELSE AviVsVipCacheAddLoop(AviVsVipCacheAddElem(caches, resp_elems[i], vsKey), resp_elems, vsKey, i + 1)

\* AviVsVipCacheAdd: the two caches it leaves and the error it returns
AviVsVipCacheAdd(cache, vipCache, rest_op, vsKey) ==
    IF rest_op.Err # "" \/ rest_op.Response.nil
    THEN [vs |-> cache, vsvip |-> vipCache, err |-> "Errored vsvip rest_op"]
    ELSE IF RestRespArrToObjByType(rest_op, "vsvip") = <<>>
    THEN [vs |-> cache, vsvip |-> vipCache, err |-> "vsvip not found"]
    ELSE [err |-> ""] @@ AviVsVipCacheAddLoop([vs |-> cache, vsvip |-> vipCache],
                                               RestRespArrToObjByType(rest_op, "vsvip"), vsKey, 1)

\* AviVsVipCacheDel: the two caches it leaves
AviVsVipCacheDel(cache, vipCache, ObjName, vsKey) ==
    [vsvip |-> Del(vipCache, ObjName),
     vs |-> IF vsKey # "" /\ vsKey \in DOMAIN cache
            THEN [cache EXCEPT ![vsKey].VSVipKeyCollection = Remove(@, ObjName)]
            ELSE cache]

\* --------------------------------------------- inputs of the REST layer
ParentVsName == "Shared-L7-EVH-0"

ChildVsNames == {"c1", "c2"}

VsNames == {ParentVsName} \cup ChildVsNames

VsvipName == "vsvip-0"

\* the uuids the controller gives to a VS: a child that is created again gets
\* another uuid
VsUuids(name) ==
    IF name = ParentVsName THEN {"vs-p"}
    ELSE IF name = "c1" THEN {"vs-1", "vs-1b"}
    ELSE {"vs-2"}

\* the element of a response for a VS
VsResp(name, uuid) ==
    IF name = ParentVsName
    THEN [type |-> "virtualservice", name |-> name, uuid |-> uuid, cloud_config_cksum |-> "7",
          _last_modified |-> [kind |-> "string", v |-> "1600000000"]]
    ELSE [type |-> "virtualservice", name |-> name, uuid |-> uuid, cloud_config_cksum |-> "7",
          _last_modified |-> [kind |-> "string", v |-> "1600000000"],
          vh_parent_vs_ref |-> <<"vs-p", ParentVsName>>]

VsvipResp ==
    [type |-> "vsvip", name |-> VsvipName, uuid |-> "vsvip-u",
     _last_modified |-> [kind |-> "string", v |-> "1600000000"]]

\* the element with a _last_modified that is a number
NumberModified(resp) == [resp EXCEPT !["_last_modified"] = [kind |-> "number", v |-> "1600000000"]]

\* the element without one of its fields
Lacking(resp, field) == [f \in (DOMAIN resp) \ {field} |-> resp[f]]

RequiredFields == {"name", "uuid", "cloud_config_cksum"}

Malformed(resp) == RequiredFields \ (DOMAIN resp) # {}

Responded(elems) == [Err |-> "", Response |-> [nil |-> FALSE, elems |-> elems]]

\* operations that failed: an error without a response, no response, an
\* error with a response
ErroredRestOps(elems) ==
    {[Err |-> "timeout", Response |-> [nil |-> TRUE, elems |-> <<>>]],
     [Err |-> "", Response |-> [nil |-> TRUE, elems |-> <<>>]],
     [Err |-> "HTTP 412", Response |-> [nil |-> FALSE, elems |-> elems]]}

GoodVsResps == UNION {{VsResp(n, u) : u \in VsUuids(n)} : n \in VsNames}

\* the operations whose response AviVsCacheAdd is called with
VsRestOps ==
    {Responded(<<resp>>) : resp \in GoodVsResps}
        \cup {Responded(<<VsResp("c1", "vs-1"), VsResp("c2", "vs-2")>>)}
        \cup {Responded(<<Lacking(VsResp("c1", "vs-1"), f)>>) : f \in RequiredFields}
        \cup {Responded(<<Lacking(VsResp("c1", "vs-1"), "name"), VsResp("c2", "vs-2")>>),
              Responded(<<VsResp("c2", "vs-2"), Lacking(VsResp("c1", "vs-1b"), "cloud_config_cksum")>>),
              Responded(<<VsvipResp>>),
              Responded(<<Lacking(VsResp("c1", "vs-1"), "_last_modified")>>),
              Responded(<<NumberModified(VsResp(ParentVsName, "vs-p"))>>)}
        \cup ErroredRestOps(<<VsResp("c1", "vs-1")>>)

\* the operations whose response AviVsVipCacheAdd is called with
VsvipRestOps ==
    {Responded(<<VsvipResp>>),
     Responded(<<Lacking(VsvipResp, "uuid"), VsvipResp>>),
     Responded(<<Lacking(VsvipResp, "name")>>),
     Responded(<<Lacking(VsvipResp, "_last_modified")>>),
     Responded(<<NumberModified(VsvipResp)>>),
     Responded(<<VsResp(ParentVsName, "vs-p")>>)}
        \cup ErroredRestOps(<<VsvipResp>>)

\* the errors of the GET of a VSVIP: none, not found, another error
VsvipGetErrs == {"", VSVIP_NOTFOUND, "timeout"}

\* ---------------------------------------------- calls into the REST layer
Called(fn, err, panic, rest_op) == [fn |-> fn, err |-> err, panic |-> panic, rest_op |-> rest_op]

notRestVars == <<shardSize, graphs, lister, stored, resources, workerVars, crdVars, httpRuleVars, ckNode>>

\* the response of a VS operation is put into the cache; a panic ends the program
AviVsCacheAddCall(rest_op) ==
    /\ ~lastCall.panic
    /\ \E r \in {AviVsCacheAdd(vsCache, rest_op)} :
          /\ vsCache' = r.cache
          /\ lastCall' = Called("AviVsCacheAdd", r.err, r.panic, NoRestOp)
    /\ UNCHANGED <<vsvipCache, notRestVars>>

\* a VS was deleted on the controller
AviVsCacheDelCall(vsKey) ==
    /\ ~lastCall.panic
    /\ \E r \in {AviVsCacheDel(vsCache, vsvipCache, vsKey)} :
          /\ vsCache' = r.vs
          /\ vsvipCache' = r.vsvip
    /\ lastCall' = Called("AviVsCacheDel", "", FALSE, NoRestOp)
    /\ UNCHANGED notRestVars

\* the cache update of another object (a pool, a policy) of the VS makes the
\* cache object of the VS
OtherObjectCacheAdd(vsKey) ==
    /\ ~lastCall.panic
    /\ vsCache' = AviCacheAddVS(vsCache, vsKey)
    /\ lastCall' = Called("AviCacheAddVS", "", FALSE, NoRestOp)
    /\ UNCHANGED <<vsvipCache, notRestVars>>

\* the operation for a VS is built: a PUT when the VS cache holds an object of
\* the name (the object is passed in), a POST when it holds none
AviVsBuildCall(vs) ==
    /\ ~lastCall.panic
    /\ lastCall' = Called("AviVsBuild", "", FALSE,
                          IF vs \in DOMAIN vsCache
                          THEN AviVsBuild(vs \in ChildVsNames, RestPut, vsCache[vs])
                          ELSE AviVsBuild(vs \in ChildVsNames, RestPost, NewVsCache("")))
    /\ UNCHANGED <<vsCache, vsvipCache, notRestVars>>

\* the operation for the VSVIP is built
AviVsVipBuildCall(passed, getErr) ==
    /\ ~lastCall.panic
    /\ passed => VsvipName \in DOMAIN vsvipCache
    /\ \E r \in {AviVsVipBuild(vsvipCache, VsvipName, passed, getErr)} :
          /\ vsvipCache' = r.vsvip
          /\ lastCall' = Called("AviVsVipBuild", r.err, FALSE, r.rest_op)
    /\ UNCHANGED <<vsCache, notRestVars>>

\* the response of a VSVIP operation is put into the cache
AviVsVipCacheAddCall(rest_op, vsKey) ==
    /\ ~lastCall.panic
    /\ \E r \in {AviVsVipCacheAdd(vsCache, vsvipCache, rest_op, vsKey)} :
          /\ vsCache' = r.vs
          /\ vsvipCache' = r.vsvip
          /\ lastCall' = Called("AviVsVipCacheAdd", r.err, FALSE, NoRestOp)
    /\ UNCHANGED notRestVars

\* the VSVIP was deleted on the controller
AviVsVipCacheDelCall(vsKey) ==
    /\ ~lastCall.panic
    /\ \E r \in {AviVsVipCacheDel(vsCache, vsvipCache, VsvipName, vsKey)} :
          /\ vsCache' = r.vs
          /\ vsvipCache' = r.vsvip
    /\ lastCall' = Called("AviVsVipCacheDel", "", FALSE, NoRestOp)
    /\ UNCHANGED notRestVars

InitRest ==
    /\ vsCache = EmptyMap
    /\ vsvipCache = EmptyMap
    /\ lastCall = Called("", "", FALSE, NoRestOp)
    /\ shardSize = 1
    /\ graphs = EmptyMap
    /\ lister = EmptyMap
    /\ stored = EmptyMap
    /\ resources = EmptyMap
    /\ pc = [w \in Ings |-> "idle"]
    /\ job = [w \in Ings |-> IdleJob]
    /\ priv = [w \in Ings |-> NilGraph]
    /\ lock = [w \in Ings |-> FALSE]
    /\ mut = NoMutation
    /\ hostrules = EmptyMap
    /\ fqdnToHostrule = EmptyMap
    /\ otherCrds = EmptyMap
    /\ vsModel = NilGraph
    /\ httprules = EmptyMap
    /\ pathRules = EmptyMap
    /\ ckNode = NilGraph

NextRest ==
    \/ \E rest_op \in VsRestOps : AviVsCacheAddCall(rest_op)
    \/ \E vsKey \in VsNames : AviVsCacheDelCall(vsKey)
    \/ \E vsKey \in VsNames : OtherObjectCacheAdd(vsKey)
    \/ \E vs \in VsNames : AviVsBuildCall(vs)
    \/ \E passed \in BOOLEAN, getErr \in VsvipGetErrs : AviVsVipBuildCall(passed, getErr)
    \/ \E rest_op \in VsvipRestOps : AviVsVipCacheAddCall(rest_op, ParentVsName)
    \/ \E vsKey \in {ParentVsName, ""} : AviVsVipCacheDelCall(vsKey)

SpecRest == InitRest /\ [][NextRest]_vars


\* C26: the operation built for a VS of the cache is a PUT to
\* /api/virtualservice/<uuid> when the cache object holds a uuid and a POST
\* to /api/macro when it holds none, for the parent VS and for a child VS; no
\* operation that was built is a PUT with an empty uuid in its path
C26_PutOnlyWithUuid ==
    /\ \A vs \in DOMAIN vsCache :
           LET rest_op == AviVsBuild(vs \in ChildVsNames, RestPut, vsCache[vs])
           IN IF vsCache[vs].Uuid # ""
              THEN rest_op = [Path |-> "/api/virtualservice/" \o vsCache[vs].Uuid, Method |-> RestPut]
              ELSE rest_op = [Path |-> "/api/macro", Method |-> RestPost]
    /\ lastCall.fn = "AviVsBuild" =>
           ~(lastCall.rest_op.Method = RestPut /\ lastCall.rest_op.Path = "/api/virtualservice/")

\* C27: the SNIChildCollection of the parent VS holds exactly the uuids of the
\* child VSes that are in the VS cache with their response (every response of
\* a child names the parent VS); no other cache object holds a child
C27_SniChildCollectionExact ==
    \A p \in DOMAIN vsCache :
        Range(vsCache[p].SNIChildCollection) =
            IF p = ParentVsName
            THEN {vsCache[c].Uuid : c \in {c \in ChildVsNames \cap DOMAIN vsCache : vsCache[c].Uuid # ""}}
            ELSE {}

\* C28: when the GET of a cached VSVIP fails with VSVIP_NOTFOUND, AviVsVipBuild
\* removes the VSVIP from the cache and returns a POST to /api/macro, with the
\* cache object passed in by the caller and with the cache object found by name
C28_VsvipNotFoundEvicts ==
    VsvipName \in DOMAIN vsvipCache =>
        \A passed \in BOOLEAN :
            LET r == AviVsVipBuild(vsvipCache, VsvipName, passed, VSVIP_NOTFOUND)
            IN /\ VsvipName \notin DOMAIN r.vsvip
               /\ r.err = ""
               /\ r.rest_op = [Path |-> "/api/macro", Method |-> RestPost]

\* C29: AviVsCacheAdd skips an element of the response that lacks name, uuid
\* or cloud_config_cksum: it does not panic and it leaves the VS cache that
\* the response without that element leaves
C29_MalformedElementSkipped ==
    \A rest_op \in VsRestOps :
        LET resp_elems == RestRespArrToObjByType(rest_op, "virtualservice")
            r == AviVsCacheAdd(vsCache, rest_op)
        IN (rest_op.Err = "" /\ ~rest_op.Response.nil /\ \E i \in 1..Len(resp_elems) : Malformed(resp_elems[i])) =>
               /\ ~r.panic
               /\ r.cache = AviVsCacheAdd(vsCache, Responded(SelectSeq(resp_elems, LAMBDA resp : ~Malformed(resp)))).cache

\* C30: with an operation that carries an error or has no response,
\* AviVsCacheAdd and AviVsVipCacheAdd return an error and leave the VS cache
\* and the VSVIP cache, with the collections of their objects, as they were
C30_ErroredOpLeavesCaches ==
    /\ \A rest_op \in VsRestOps :
           (rest_op.Err # "" \/ rest_op.Response.nil) =>
               LET r == AviVsCacheAdd(vsCache, rest_op)
               IN r.err # "" /\ ~r.panic /\ r.cache = vsCache
    /\ \A rest_op \in VsvipRestOps, vsKey \in VsNames :
           (rest_op.Err # "" \/ rest_op.Response.nil) =>
               LET r == AviVsVipCacheAdd(vsCache, vsvipCache, rest_op, vsKey)
               IN r.err # "" /\ r.vs = vsCache /\ r.vsvip = vsvipCache
    /\ (lastCall.fn \in {"AviVsCacheAdd", "AviVsVipCacheAdd"} /\ lastCall.err \in {"Errored rest_op", "Errored vsvip rest_op"}) =>
           ~lastCall.panic

\* an errored VS operation was handled while the caches held the parent VS
\* with a child and the VSVIP
C30_Witness ==
    /\ lastCall.fn = "AviVsCacheAdd"
    /\ lastCall.err = "Errored rest_op"
    /\ ParentVsName \in DOMAIN vsCache
    /\ vsCache[ParentVsName].SNIChildCollection # <<>>
    /\ vsCache[ParentVsName].VSVipKeyCollection = <<VsvipName>>
    /\ VsvipName \in DOMAIN vsvipCache


\* the element carries a _last_modified that is a string
HasLastModified(resp) == "_last_modified" \in DOMAIN resp /\ resp["_last_modified"].kind = "string"

SuspensionPoints == {"sec_tls", "sec_build", "ins_build"}

\* the steps that run between Lock() and the deferred Unlock()
LockedSteps == {"construct_body", "del_body"}

\* C32: no suspension point (Kubernetes secret fetch, CRD get or ADC HTTP
\* call) is executed by a worker while it holds a graph lock: a worker that
\* holds the lock of a graph is inside ConstructAviL7SharedVsNodeForEvh or
\* DeletePoolForHostnameForEvh, and neither step is a suspension point.
C32_NoSuspensionUnderLock ==
    \A w \in Ings : lock[w] => /\ pc[w] \in LockedSteps
                               /\ pc[w] \notin SuspensionPoints

\* a worker is about to fetch a Kubernetes secret, having built its graph
\* under the lock, while another worker holds the lock of a graph
C32_Witness ==
    \E w \in Ings : \E o \in Ings \ {w} :
        /\ pc[w] = "sec_tls"
        /\ ~IsRouteSecret(TlsOf(w))
        /\ job[w].ref = "own"
        /\ lock[o]

\* ---------------------------------------------------------------- C33

\* the path entries BuildPolicyPGPoolsForEVH can be given
PathEntries == {Entry(p, svc, w) : p \in Paths, svc \in 1..MaxBackends, w \in 1..MaxWeight}

\* replace-by-name of node in the list before, giving the list after; same
\* tells that the same-named entry of before has the checksum of node
ReplacedByName(before, after, node, same) ==
    LET i == FirstIdx(before, node.Name)
        Others(s) == SelectSeq(s, LAMBDA x : x.Name # node.Name)
    IN /\ i = 0 => after = Append(before, node)
       /\ (i # 0 /\ same) => after = before
       /\ (i # 0 /\ ~same) => \E j \in 1..Len(after) : after[j] = node
       /\ Others(after) = Others(before)
       /\ Cardinality({j \in 1..Len(after) : after[j].Name = node.Name}) = 1

\* C33: replace-by-name semantics of the builder.  For the new pool, pool
\* group and HTTP policy of one path entry and for a new child VS: a
\* same-named entry with an equal checksum is kept, one with a different
\* checksum is replaced by the new node, with no same-named entry the new
\* node is appended; every other entry of the list is unchanged and the
\* list holds exactly one entry with that name afterwards.
\* FindAndReplaceEvhInModel never appends and returns true exactly when a
\* same-named child exists.
C33_ReplaceByName ==
    \A vs \in Parents :
        /\ \A k \in 1..Len(vs.EvhNodes) : \A ing \in Ings : \A e \in PathEntries :
               LET c == vs.EvhNodes[k]
                   host == c.EvhHostName
                   n == GetEvhVsPoolNPgName(ing, host, e.Path)
                   b == BuildOnePath([child |-> c, local |-> EmptyMap], ing, host, e).child
                   poolNode == [Name |-> n, PortName |-> e.PortName, ServiceName |-> e.ServiceName]
                   pgNode == [Name |-> n, Members |-> <<[PoolRef |-> n, Ratio |-> e.weight]>>]
                   policyNode == [Name |-> GetSniHttpPolName(ing, host, e.Path),
                                  HppMap |-> <<[Host |-> host,
                                                MatchCriteria |-> IF e.PathType = "Exact" THEN "EQUALS"
                                                                  ELSE "BEGINS_WITH",
                                                Path |-> <<e.Path>>,
                                                PoolGroup |-> n]>>]
                   Same(s, node) == \E i \in 1..Len(s) :
                                        s[i].Name = node.Name /\ LeafCheckSum(s[i]) = LeafCheckSum(node)
               IN /\ ReplacedByName(c.PoolRefs, b.PoolRefs, poolNode, Same(c.PoolRefs, poolNode))
                  /\ ReplacedByName(c.PoolGroupRefs, b.PoolGroupRefs, pgNode, Same(c.PoolGroupRefs, pgNode))
                  /\ ReplacedByName(c.HttpPolicyRefs, b.HttpPolicyRefs, policyNode,
                                    Same(c.HttpPolicyRefs, policyNode))
        /\ LET NewChildren == {NewEvhNode(ing, host, vs) : ing \in Ings, host \in Hosts}
               Rebuilt == {[vs.EvhNodes[k] EXCEPT !.HttpPolicyRefs = <<>>] : k \in 1..Len(vs.EvhNodes)}
           IN \A evhNode \in NewChildren \cup Rebuilt \cup Range(vs.EvhNodes) :
                  LET r == FindAndReplaceEvhInModel(evhNode, vs.EvhNodes)
                      linked == LinkEvhNode(vs, evhNode, FALSE).EvhNodes
                      same == \E i \in 1..Len(vs.EvhNodes) :
                                  /\ vs.EvhNodes[i].Name = evhNode.Name
                                  /\ EvhCheckSum(vs.EvhNodes[i]) = EvhCheckSum(evhNode)
                  IN /\ r.found = (evhNode.Name \in Names(vs.EvhNodes))
                     /\ Len(r.EvhNodes) = Len(vs.EvhNodes)
                     /\ ReplacedByName(vs.EvhNodes, linked, evhNode, same)

\* a parent with two child VSes, one of them holding the pools of two
\* ingresses, one of which replaced the pool of the service before it; the
\* child has a same-named pool group of another checksum, a same-named one of
\* the same checksum and none for the second path of ingress B
C33_Witness ==
    \E vs \in Parents : \E k \in 1..Len(vs.EvhNodes) :
        LET c == vs.EvhNodes[k]
        IN /\ Len(vs.EvhNodes) = 2
           /\ Len(c.PoolRefs) = 2
           /\ \E i \in 1..Len(c.PoolRefs) : c.PoolRefs[i].ServiceName = 2
           /\ \E i \in 1..Len(c.PoolGroupRefs) :
                  /\ c.PoolGroupRefs[i].Name = GetEvhVsPoolNPgName("A", "h1", 1)
                  /\ Len(c.PoolGroupRefs[i].Members) = 2
           /\ \E i \in 1..Len(c.PoolGroupRefs) :
                  /\ c.PoolGroupRefs[i].Name = GetEvhVsPoolNPgName("B", "h1", 1)
                  /\ c.PoolGroupRefs[i].Members = <<[PoolRef |-> GetEvhVsPoolNPgName("B", "h1", 1), Ratio |-> 1]>>
           /\ GetEvhVsPoolNPgName("B", "h1", 2) \notin Names(c.PoolGroupRefs)

\* ---------------------------------------------------------------- C34

\* what a child VS holds, without the order of its lists (the members of a
\* pool group keep their order)
ChildContent(c) ==
    [c EXCEPT !.VHDomainNames = BagOfList(@),
              !.PoolRefs = BagOfList(@),
              !.PoolGroupRefs = BagOfList(@),
              !.HttpPolicyRefs = BagOfList(@)]

\* what a graph holds, without the order of its lists
GraphContent(vs) ==
    IF vs = NilGraph THEN vs
    ELSE [vs EXCEPT !.FQDNs = BagOfList(@),
                    !.SSLKeyCertRefs = BagOfList(@),
                    !.CACertRefs = BagOfList(@),
                    !.HttpPolicyRefs = BagOfList([i \in 1..Len(@) |->
                        [@[i] EXCEPT !.RedirectPorts = [j \in 1..Len(@) |-> [@[j] EXCEPT !.Hosts = BagOfList(@)]]]]),
                    !.EvhNodes = BagOfList([i \in 1..Len(@) |-> ChildContent(@[i])])]

GraphContents(gs) == [m \in DOMAIN gs |-> GraphContent(gs[m])]

\* C34: idempotence of re-processing.  Processing the same unchanged ingress
\* a second time, the stored map being the host map that the first run
\* produced, leaves every graph with the content it had after the first run:
\* no child VS, pool, pool group, policy, TLS node, FQDN or redirect host is
\* deleted, added or duplicated (the order of the entries of a list is not
\* compared: the hosts of an ingress are visited in the order of a Go map).
C34_ReprocessKeepsContent ==
    \A ing \in Ings : \A cfg \in IngressCfgs(ing) : \A o1, o2 \in SeqsOf(Hosts) :
        \A st1 \in {AfterUpdate(ing, cfg, o1)} :
            GraphContents(ProcessIngress(st1, ing, Parsed(ing, cfg, o2), o2).graphs)
                = GraphContents(st1.graphs)

\* ---------------------------------------------------------------- C35

\* the handler of worker w is about to return from the add of its ingress
\* (nothing was stored for it), which asks for a child VS of the host
AddDone(w) ==
    /\ pc[w] = "finish"
    /\ job[w].kind = "update"
    /\ job[w].Storedhosts = EmptyMap
    /\ job[w].cfg[WorkerHost].mode # "absent"
    /\ job[w].cfg[WorkerHost].cert # "missing"

\* C35: two workers build two different ingresses whose hosts map to the
\* same shard; when both have finished, the saved graph of the shard holds
\* the FQDN of the host and a child VS of the host with the pools of both
\* ingresses, whatever the interleaving of the two workers was.
C35_NoLostAddition ==
    (\A w \in Ings : AddDone(w)) =>
        LET m == DeriveHostNameShardVSForEvh(WorkerHost)
        IN /\ m \in DOMAIN graphs
           /\ HasElem(graphs[m].FQDNs, WorkerHost)
           /\ \E k \in 1..Len(graphs[m].EvhNodes) :
                  /\ graphs[m].EvhNodes[k].EvhHostName = WorkerHost
                  /\ \A w \in Ings : \A i \in 1..Len(job[w].cfg[WorkerHost].paths) :
                         GetEvhVsPoolNPgName(w, WorkerHost, job[w].cfg[WorkerHost].paths[i].Path)
                             \in Names(graphs[m].EvhNodes[k].PoolRefs)

\* ---------------------------------------------------------------- C36

\* ingress B claims host h1 with a TLS setting whose cert can be built
SecondClaims == {[NoHosts EXCEPT !["h1"] = Secure(SinglePaths(1), r, c)] :
                    r \in BOOLEAN, c \in {"secret", "route"}}

\* the state after ingress B, not stored so far, claimed host h1 with cfgB
AfterSecondClaim(cfgB, order) == ProcessIngress(State, "B", Parsed("B", cfgB, order), order)

\* ingress A holds an entry of host h1 in the state st and its pools of
\* the host are in the child VS
Claims(st, ing, host) ==
    /\ ing \in DOMAIN st.stored
    /\ host \in DOMAIN st.stored[ing]
    /\ DeriveHostNameShardVSForEvh(host) \in DOMAIN st.graphs
    /\ \E k \in 1..Len(st.graphs[DeriveHostNameShardVSForEvh(host)].EvhNodes) :
           LET c == st.graphs[DeriveHostNameShardVSForEvh(host)].EvhNodes[k]
           IN c.EvhHostName = host /\ \E i \in 1..Len(c.PoolRefs) : c.PoolRefs[i].Name[1] = ing

\* the resource of the ingress without the host
WithoutHost(ing, host) ==
    IF ing \in DOMAIN resources THEN [resources[ing] EXCEPT ![host] = Absent] ELSE NoHosts

C37_AlternateBackendPools ==
    LET AltPathLists == {AltPaths(ws) : ws \in UNION {[1..k -> 1..MaxWeight] : k \in 2..MaxBackends}}
    IN
    \A vs \in Parents : \A ing \in Ings : \A host \in Hosts : \A paths \in AltPathLists :
        LET b == BuildPolicyPGPoolsForEVH(vs, EvhNodeOf(vs, ing, host), ing, host, paths)
            pgName == GetEvhVsPoolNPgName(ing, host, paths[1].Path)
            pgs == SelectSeq(b.child.PoolGroupRefs, LAMBDA pg : pg.Name = pgName)
            services == {paths[i].ServiceName : i \in 1..Len(paths)}
            owned == {i \in 1..Len(b.child.PoolRefs) :
                          \E j \in 1..Len(pgs[1].Members) :
                              pgs[1].Members[j].PoolRef = b.child.PoolRefs[i].Name}
        IN /\ Len(pgs) = 1
           /\ Len(pgs[1].Members) = Len(paths)
           /\ \A i, j \in 1..Len(pgs[1].Members) :
                  pgs[1].Members[i].PoolRef = pgs[1].Members[j].PoolRef => i = j
           /\ \A i \in 1..Len(pgs[1].Members) : pgs[1].Members[i].PoolRef \in Names(b.child.PoolRefs)
           /\ Cardinality(owned) = Len(paths)
           /\ {b.child.PoolRefs[i].ServiceName : i \in owned} = services

\* ---------------------------------------------------------------- C38

\* C38: determinism of the HTTP-rule overlay.  For the accepted HTTP-rule
\* paths and the pools of a state, the fields that BuildPoolHTTPRule leaves
\* on each pool (SniEnabled, SslProfileRef, PkiProfile, LbAlgorithm,
\* LbAlgorithmHash, LbAlgoHostHeader, CRD status) are the same for every
\* order in which the target paths of the host are ranged over.
C38_OverlayOrderIndependent ==
    LET targets == IF CrdHost \in DOMAIN pathRules THEN DOMAIN pathRules[CrdHost] ELSE {}
        Overlay(v) == [k \in 1..Len(v.PoolRefs) |->
                          [f \in {"SniEnabled", "SslProfileRef", "PkiProfile", "LbAlgorithm",
                                  "LbAlgorithmHash", "LbAlgoHostHeader", "CRDStatus"} |-> v.PoolRefs[k][f]]]
    IN \A o1, o2 \in SeqsOf(targets) :
           Overlay(BuildPoolHTTPRule(CrdHost, "A", NewPools(vsModel), o1))
               = Overlay(BuildPoolHTTPRule(CrdHost, "A", NewPools(vsModel), o2))

\* ---------------------------------------------------------------- C39
\* The changed-model list of one event.  The caller hands a pointer to an
\* empty list to ProcessSecureHostsForEVH, ProcessInsecureHostsForEVH and
\* DeleteStaleDataForEvh; each of them appends the name of a model after
\* saveAviModel when utils.HasElem does not find the name.

\* utils.HasElem(modelList, modelName) as called by ProcessInsecureHostsForEVH
\* and DeleteStaleDataForEvh: the argument is the pointer to the list, which
\* is no slice, and no element is found in it
HasElemOfPointer(modelList, e) == FALSE

\* the models that are saved in a loop over the hosts, one save per host
\* (with no shard VS name the loop is left; the shard size is one value for
\* all the hosts, so that no host or every host has a name)
SavedModels(hosts) ==
    SelectSeq([i \in 1..Len(hosts) |-> DeriveHostNameShardVSForEvh(hosts[i])], LAMBDA m : m # "")

\* the saves of evhNodeHostName for the TLS settings from position i on
RECURSIVE SecureSavedModels(_, _, _)
SecureSavedModels(TlsCollection, order, i) ==
    IF i > Len(TlsCollection) THEN <<>>
    ELSE SavedModels(Visit(order, DOMAIN TlsCollection[i].Hosts))
             \o SecureSavedModels(TlsCollection, order, i + 1)

\* if !utils.HasElem(...) && changedModel { *modelList = append(*modelList, name) }
\* for the saves from position i on; saveAviModel returns true for a graph
\* it stored; dereferenced tells that HasElem is given *modelList
RECURSIVE AppendChangedModels(_, _, _, _)
AppendChangedModels(modelList, saved, i, dereferenced) ==
    IF i > Len(saved) THEN modelList
    ELSE LET has == IF dereferenced THEN HasElem(modelList, saved[i])
                    ELSE HasElemOfPointer(modelList, saved[i])
         IN AppendChangedModels(IF ~has THEN Append(modelList, saved[i]) ELSE modelList,
                                saved, i + 1, dereferenced)

\* the changed-model list after the add/update handler of an ingress has
\* run on st = [graphs, lister, stored]
ChangedModelList(st, ing, parsedIng, order) ==
    LET ev0 == [graphs |-> st.graphs,
                lister |-> st.lister,
                Storedhosts |-> IF ing \in DOMAIN st.stored THEN st.stored[ing] ELSE EmptyMap,
                hostsMap |-> EmptyMap]
        built == ProcessInsecureHostsForEVH(ProcessSecureHostsForEVH(ev0, ing, parsedIng, order),
                                            ing, parsedIng, order)
        secure == SecureSavedModels(parsedIng.TlsCollection, order, 1)
        insecure == SavedModels(Visit(order, DOMAIN parsedIng.IngressHostMap))
        stale == SelectSeq(SavedModels(Visit(order, DOMAIN ev0.Storedhosts)),
                           LAMBDA m : m \in DOMAIN built.graphs)
    IN AppendChangedModels(
           AppendChangedModels(
               AppendChangedModels(<<>>, secure, 1, TRUE),
               insecure, 1, FALSE),
           stale, 1, FALSE)

\* C39: while one event is processed a model name is appended to the
\* changed-model list at most once: after ProcessSecureHostsForEVH,
\* ProcessInsecureHostsForEVH and DeleteStaleDataForEvh have run for an
\* ingress, the list holds no model name twice.
C39_ModelListNoDuplicate ==
    \A ing \in Ings : \A cfg \in IngressCfgs(ing) : \A order \in SeqsOf(Hosts) :
        \A modelList \in {ChangedModelList(State, ing, Parsed(ing, cfg, order), order)} :
            \A i, j \in 1..Len(modelList) : modelList[i] = modelList[j] => i = j

====
